---- MODULE Spec2Model ----
(***************************************************************************)
(* Model of the Romer & Romer companion-paper parser                       *)
(* (src/python/parse_rr_companion.py).                                     *)
(*                                                                         *)
(* Text is modelled at character level: a Python str is a sequence of      *)
(* one-character strings, so "2009Q1" is <<"2","0","0","9","Q","1">>.       *)
(* The three non-ASCII sign glyphs are single characters written           *)
(* "u2013" (en dash), "u2014" (em dash) and "u2212" (minus sign).          *)
(* Python's None, where it can stand in for a str, is the one-element      *)
(* sequence <<"None">>, which is no string of characters.                  *)
(* A float is a sign bit and a magnitude in thousandths.                   *)
(***************************************************************************)
EXTENDS Integers, Sequences, FiniteSets, TLC

\* ------------------------------------------------------------------------
\* Characters and elementary str operations
\* ------------------------------------------------------------------------
None == <<"None">>

EnDash == "u2013"

EmDash == "u2014"

MinusSign == "u2212"

Digit == {"0", "1", "2", "3", "4", "5", "6", "7", "8", "9"}

\* \s of the re module, restricted to the whitespace the model's texts use
Space == {" ", "\t"}

DigitVal(c) ==
  CASE c = "0" -> 0 [] c = "1" -> 1 [] c = "2" -> 2 [] c = "3" -> 3 [] c = "4" -> 4
    [] c = "5" -> 5 [] c = "6" -> 6 [] c = "7" -> 7 [] c = "8" -> 8 [] c = "9" -> 9

DigitChar(d) ==
  CASE d = 0 -> "0" [] d = 1 -> "1" [] d = 2 -> "2" [] d = 3 -> "3" [] d = 4 -> "4"
    [] d = 5 -> "5" [] d = 6 -> "6" [] d = 7 -> "7" [] d = 8 -> "8" [] d = 9 -> "9"

Min(S) == CHOOSE x \in S : \A y \in S : x <= y

Max(S) == CHOOSE x \in S : \A y \in S : x >= y

\* s[pos:] with a 1-based pos
From(s, pos) == SubSeq(s, pos, Len(s))

\* whether pattern p occurs in s at the 1-based position pos
MatchAt(s, pos, p) ==
  /\ pos >= 1
  /\ pos + Len(p) - 1 <= Len(s)
  /\ SubSeq(s, pos, pos + Len(p) - 1) = p

\* s.startswith(p)
StartsWith(s, p) == MatchAt(s, 1, p)

\* p in s
Contains(s, p) == \E pos \in 1..(Len(s) + 1) : MatchAt(s, pos, p)

\* length of the longest run of characters of S that starts at position pos
RunLen(s, pos, S) ==
  Max({k \in 0..(Len(s) - pos + 1) : \A m \in 0..(k - 1) : s[pos + m] \in S})

\* s.strip()
strip(s) ==
  LET lead == RunLen(s, 1, Space)
      keep == {j \in 1..Len(s) : s[j] \notin Space}
  IN  IF keep = {} THEN <<>> ELSE SubSeq(s, lead + 1, Max(keep))

\* s.replace(c, "") for a single character c
RECURSIVE Remove(_, _)
Remove(s, c) ==
  IF s = <<>> THEN <<>>
  ELSE IF Head(s) = c THEN Remove(Tail(s), c)
  ELSE <<Head(s)>> \o Remove(Tail(s), c)

\* int(s) for a str of decimal digits
RECURSIVE int(_)
int(s) ==
  IF s = <<>> THEN 0
  ELSE int(SubSeq(s, 1, Len(s) - 1)) * 10 + DigitVal(s[Len(s)])

\* str(n), the "{n}" of an f-string, for n >= 0
RECURSIVE str(_)
str(n) ==
  IF n < 10 THEN <<DigitChar(n)>>
  ELSE str(n \div 10) \o <<DigitChar(n % 10)>>

\* the "{n:02d}" of an f-string, for n >= 0
Pad2(n) == IF n < 10 THEN <<"0">> \o str(n) ELSE str(n)

\* ------------------------------------------------------------------------
\* Floats: a sign bit and a magnitude in thousandths
\* ------------------------------------------------------------------------
\* whether float(s) returns: one or more digits with at most one point
FloatOk(s) ==
  /\ \A j \in 1..Len(s) : s[j] \in Digit \cup {"."}
  /\ \E j \in 1..Len(s) : s[j] \in Digit
  /\ Cardinality({j \in 1..Len(s) : s[j] = "."}) <= 1

\* float(s) for a str with FloatOk(s); digits beyond the third decimal are cut
float(s) ==
  LET dots  == {j \in 1..Len(s) : s[j] = "."}
      p     == IF dots = {} THEN Len(s) + 1 ELSE Min(dots)
      whole == SubSeq(s, 1, p - 1)
      frac  == SubSeq(From(s, p + 1) \o <<"0", "0", "0">>, 1, 3)
  IN  [neg |-> FALSE, milli |-> int(whole) * 1000 + int(frac)]

\* a * b on floats
FMul(a, b) == [neg |-> (a.neg # b.neg), milli |-> (a.milli * b.milli) \div 1000]

PlusOne == [neg |-> FALSE, milli |-> 1000]

MinusOne == [neg |-> TRUE, milli |-> 1000]

\* ------------------------------------------------------------------------
\* The regular expressions (lines 21-27) and the functions that use them
\* ------------------------------------------------------------------------
NoMatch == [ok |-> FALSE, start |-> 0, g1 |-> <<>>, g2 |-> <<>>]

\* RE_PAGE_NUM.match(s): ^\d{1,3}$
RE_PAGE_NUM(s) == Len(s) \in 1..3 /\ \A j \in 1..Len(s) : s[j] \in Digit

\* RE_QUARTER.search(s): (\d{4})Q(\d); start is the 0-based m.start()
RE_QUARTER(s) ==
  LET at(pos) == /\ pos + 5 <= Len(s)
                 /\ \A k \in 0..3 : s[pos + k] \in Digit
                 /\ s[pos + 4] = "Q"
                 /\ s[pos + 5] \in Digit
      hits    == {pos \in 1..Len(s) : at(pos)}
  IN  IF hits = {} THEN NoMatch
      ELSE LET pos == Min(hits)
           IN  [ok |-> TRUE, start |-> pos - 1, g1 |-> SubSeq(s, pos, pos + 3), g2 |-> <<s[pos + 5]>>]

\* the sign class of RE_AMOUNT: + and the hyphen, en dash, em dash, minus sign
AmountSigns == {"+", "-", EnDash, EmDash, MinusSign}

Billion == <<"b","i","l","l","i","o","n">>

\* RE_AMOUNT.search(s): ([sign])\$?([\d,.]+)\s+billion
RE_AMOUNT(s) ==
  LET num(pos)  == IF pos + 1 <= Len(s) /\ s[pos + 1] = "$" THEN pos + 2 ELSE pos + 1
      nlen(pos) == RunLen(s, num(pos), Digit \cup {",", "."})
      ws(pos)   == num(pos) + nlen(pos)
      wlen(pos) == RunLen(s, ws(pos), Space)
      at(pos)   == /\ s[pos] \in AmountSigns
                   /\ num(pos) <= Len(s)
                   /\ nlen(pos) >= 1
                   /\ wlen(pos) >= 1
                   /\ MatchAt(s, ws(pos) + wlen(pos), Billion)
      hits    == {pos \in 1..Len(s) : at(pos)}
  IN  IF hits = {} THEN NoMatch
      ELSE LET pos == Min(hits)
           IN  [ok |-> TRUE, start |-> pos - 1, g1 |-> <<s[pos]>>,
                g2 |-> SubSeq(s, num(pos), num(pos) + nlen(pos) - 1)]

Exogeneities ==
  { <<"E","n","d","o","g","e","n","o","u","s">>, <<"E","x","o","g","e","n","o","u","s">> }

Categories ==
  { <<"S","p","e","n","d","i","n","g","-","d","r","i","v","e","n">>,
    <<"C","o","u","n","t","e","r","c","y","c","l","i","c","a","l">>,
    <<"D","e","f","i","c","i","t","-","d","r","i","v","e","n">>,
    <<"L","o","n","g","-","r","u","n">> }

\* RE_CATEGORY.search(s): \((Endogenous|Exogenous)[;:,]\s*(Spending-driven|...)\)
RE_CATEGORY(s) ==
  LET sep(pos, e)   == pos + 1 + Len(e)
      cat(pos, e)   == sep(pos, e) + 1 + RunLen(s, sep(pos, e) + 1, Space)
      at(pos, e, c) == /\ s[pos] = "("
                       /\ MatchAt(s, pos + 1, e)
                       /\ sep(pos, e) <= Len(s)
                       /\ s[sep(pos, e)] \in {";", ":", ","}
                       /\ MatchAt(s, cat(pos, e), c)
                       /\ MatchAt(s, cat(pos, e) + Len(c), <<")">>)
      hits        == {pos \in 1..Len(s) : \E e \in Exogeneities, c \in Categories : at(pos, e, c)}
  IN  IF hits = {} THEN NoMatch
      ELSE LET pos == Min(hits)
               e == CHOOSE e \in Exogeneities : \E c \in Categories : at(pos, e, c)
               c == CHOOSE c \in Categories : at(pos, e, c)
           IN  [ok |-> TRUE, start |-> pos - 1, g1 |-> e, g2 |-> c]

\* qstr (lines 43-44): f"{year}-{q:02d}"
qstr(year, q) == str(year) \o <<"-">> \o Pad2(q)

\* parse_sign with only the ASCII hyphen taken as a minus
parse_sign_HyphenOnly(s) == IF s = <<"-">> THEN MinusOne ELSE PlusOne

\* parse_sign (lines 47-50)
parse_sign(s) ==
  IF s \in {<<"-">>, <<EnDash>>, <<EmDash>>, <<MinusSign>>} THEN MinusOne ELSE PlusOne

ChangeInLiabilities ==
  <<"C","h","a","n","g","e"," ","i","n"," ","L","i","a","b","i","l","i","t","i","e","s">>

PresentValue == <<"P","r","e","s","e","n","t"," ","V","a","l","u","e">>

\* is_structural (lines 53-74)
is_structural(line) ==
  LET s   == strip(line)
      q_m == RE_QUARTER(s)
      a_m == RE_AMOUNT(s)
  IN  \/ s = <<>>
      \/ RE_PAGE_NUM(s)
      \/ Contains(s, ChangeInLiabilities)
      \/ StartsWith(s, PresentValue)
      \/ (q_m.ok /\ (Len(s) < 80 \/ q_m.start < 5))
      \/ (a_m.ok /\ (Len(s) < 80 \/ a_m.start < 5))
      \/ (RE_CATEGORY(s).ok /\ StartsWith(s, <<"(">>))
      \/ s[1] \in {"+", "-", EnDash, EmDash, MinusSign}

\* ------------------------------------------------------------------------
\* parse_date_signed (lines 30-40)
\* ------------------------------------------------------------------------
\* re.search(r"(\d{1,2})/(\d{1,2})/(\d{2,4})", raw): the leftmost match, each
\* group as long as it can be; g1, g2, g3 are month, day and year
RE_MDY(s) ==
  LET dlen(pos)  == RunLen(s, pos, Digit)
      \* \d{1,2} followed by "/": two digits when the slash follows them, else one
      grp(pos)   == IF dlen(pos) >= 2 /\ pos + 2 <= Len(s) /\ s[pos + 2] = "/" THEN 2
                    ELSE IF dlen(pos) >= 1 /\ pos + 1 <= Len(s) /\ s[pos + 1] = "/" THEN 1
                    ELSE 0
      day(pos)   == pos + grp(pos) + 1
      year(pos)  == day(pos) + grp(day(pos)) + 1
      ylen(pos)  == IF dlen(year(pos)) > 4 THEN 4 ELSE dlen(year(pos))
      at(pos)    == /\ grp(pos) > 0
                    /\ day(pos) <= Len(s)
                    /\ grp(day(pos)) > 0
                    /\ year(pos) <= Len(s)
                    /\ ylen(pos) >= 2
      hits     == {pos \in 1..Len(s) : at(pos)}
  IN  IF hits = {} THEN [ok |-> FALSE, start |-> 0, g1 |-> <<>>, g2 |-> <<>>, g3 |-> <<>>]
      ELSE LET pos == Min(hits)
           IN  [ok |-> TRUE, start |-> pos - 1,
                g1 |-> SubSeq(s, pos, pos + grp(pos) - 1),
                g2 |-> SubSeq(s, day(pos), day(pos) + grp(day(pos)) - 1),
                g3 |-> SubSeq(s, year(pos), year(pos) + ylen(pos) - 1)]

\* the full year with the pivot compared by > instead of >=
YearFull_PivotOff(year) ==
  IF Len(year) = 2
    THEN (IF int(year) > 45 THEN 1900 + int(year) ELSE 2000 + int(year))
    ELSE int(year)

\* lines 35-39: the full year of the year group
YearFull(year) ==
  IF Len(year) = 2
    THEN (IF int(year) >= 45 THEN 1900 + int(year) ELSE 2000 + int(year))
    ELSE int(year)

parse_date_signed(raw) ==
  LET m == RE_MDY(raw)
  IN  IF ~m.ok THEN strip(raw)
      ELSE str(YearFull(m.g3)) \o <<"-">> \o Pad2(int(m.g1)) \o <<"-">> \o Pad2(int(m.g2))

\* ------------------------------------------------------------------------
\* clean_header_area (lines 142-205) and extract_narrative (lines 311-320)
\* ------------------------------------------------------------------------
\* the page range with its lower end off by one
PageNumber_From18(line) == RE_PAGE_NUM(line) /\ 18 <= int(line) /\ int(line) <= 95

\* RE_PAGE_NUM.match(line) and 17 <= int(line) <= 95, lines 162 and 317
PageNumber(line) == RE_PAGE_NUM(line) /\ 17 <= int(line) /\ int(line) <= 95

\* RE_PAGE_NUM.match(line) and int(line) <= 30, line 167
FootnoteMarker(line) == RE_PAGE_NUM(line) /\ int(line) <= 30

\* the test of lines 186-192 on a line of the lookahead
FutureStructural(fl) ==
  \/ Contains(fl, ChangeInLiabilities)
  \/ Contains(fl, PresentValue)
  \/ RE_QUARTER(fl).ok
  \/ RE_AMOUNT(fl).ok
  \/ (RE_CATEGORY(fl).ok /\ StartsWith(fl, <<"(">>))

\* has_future of lines 179-192, for the 0-based index i: the lookahead over
\* range(i + 1, min(i + 30, len(raw_lines)))
has_future(raw_lines, i) ==
  LET last == IF i + 30 < Len(raw_lines) THEN i + 30 ELSE Len(raw_lines)
  IN  \E j \in (i + 1)..(last - 1) :
        LET fl == strip(raw_lines[j + 1])
        IN  fl # <<>> /\ ~RE_PAGE_NUM(fl) /\ FutureStructural(fl)

\* " ".join(parts)
RECURSIVE Join(_)
Join(parts) ==
  IF parts = <<>> THEN <<>>
  ELSE IF Len(parts) = 1 THEN parts[1]
  ELSE parts[1] \o <<" ">> \o Join(Tail(parts))

\* re.sub(r"\s+", " ", s): a whitespace character is kept, as one space, when it
\* starts a run of whitespace
CollapseSpace(s) ==
  LET keep  == {j \in 1..Len(s) : s[j] \notin Space \/ j = 1 \/ s[j - 1] \notin Space}
      at(k) == CHOOSE j \in keep : Cardinality({m \in keep : m <= j}) = k
  IN  [k \in 1..Cardinality(keep) |-> IF s[at(k)] \in Space THEN " " ELSE s[at(k)]]

\* lines 312-319: the parts list, for the 0-based index start
RECURSIVE NarrativeParts(_, _)
NarrativeParts(raw_lines, start) ==
  IF start >= Len(raw_lines) THEN <<>>
  ELSE LET s == strip(raw_lines[start + 1])
       IN  IF s = <<>> \/ PageNumber(s) THEN NarrativeParts(raw_lines, start + 1)
           ELSE <<s>> \o NarrativeParts(raw_lines, start + 1)

\* extract_narrative reading the block from its first line
extract_narrative_FromTop(raw_lines, start) ==
  strip(CollapseSpace(Join(NarrativeParts(raw_lines, 0))))

\* extract_narrative, line 320
extract_narrative(raw_lines, start) ==
  strip(CollapseSpace(Join(NarrativeParts(raw_lines, start))))

\* ------------------------------------------------------------------------
\* parse_header (lines 211-305): the body of "for line in header_lines"
\* ------------------------------------------------------------------------
\* "Change in Liabilities (excluding retroactive", line 223
ExcludingRetroactive ==
  ChangeInLiabilities \o <<" ","(","e","x","c","l","u","d","i","n","g"," ","r","e","t","r","o","a","c","t","i","v","e">>

\* "Change in Liabilities (including retroactive", line 227
IncludingRetroactive ==
  ChangeInLiabilities \o <<" ","(","i","n","c","l","u","d","i","n","g"," ","r","e","t","r","o","a","c","t","i","v","e">>

\* "Present Value:", line 235
PresentValueColon == PresentValue \o <<":">>

\* re.match(r"Change in Liabilities:?\s*$", line), line 231
BareChangeInLiabilities(line) ==
  /\ StartsWith(line, ChangeInLiabilities)
  /\ LET k == Len(ChangeInLiabilities) + 1
         j == IF k <= Len(line) /\ line[k] = ":" THEN k + 1 ELSE k
     IN  \A m \in j..Len(line) : line[m] \in Space

\* the dict appended at lines 265-269, 279-283 and 286-290
Entry(qs, val, c_m) ==
  [quarter    |-> qs,
   amount     |-> val,
   category   |-> IF c_m.ok THEN c_m.g2 ELSE None,
   exogeneity |-> IF c_m.ok THEN c_m.g1 ELSE None]

\* an Entry put in front of the entries of the section's list
AppendTarget_Front(st, e) ==
  CASE st.section = "std"   -> [st EXCEPT !.standard = <<e>> \o @]
    [] st.section = "retro" -> [st EXCEPT !.retroactive = <<e>> \o @]
    [] st.section = "pv"    -> [st EXCEPT !.present_value = <<e>> \o @]

\* target.append(e) with target = {"std": standard, ...}[section], line 257
AppendTarget(st, e) ==
  CASE st.section = "std"   -> [st EXCEPT !.standard = Append(@, e)]
    [] st.section = "retro" -> [st EXCEPT !.retroactive = Append(@, e)]
    [] st.section = "pv"    -> [st EXCEPT !.present_value = Append(@, e)]

\* the section detection of lines 222-248; cont says the iteration ends in "continue"
SectionDetection(st, line) ==
  IF Contains(line, ExcludingRetroactive)
    THEN [st |-> [st EXCEPT !.section = "std", !.pending_qs = <<>>], cont |-> TRUE, line |-> line]
  ELSE IF Contains(line, IncludingRetroactive)
    THEN [st |-> [st EXCEPT !.section = "retro", !.pending_qs = <<>>], cont |-> TRUE, line |-> line]
  ELSE IF BareChangeInLiabilities(line)
    THEN [st |-> [st EXCEPT !.section = "std", !.pending_qs = <<>>], cont |-> TRUE, line |-> line]
  ELSE IF StartsWith(line, PresentValueColon) \/ line = PresentValueColon
    THEN LET rest == IF Contains(line, <<":">>)
                       THEN strip(From(line, Len(PresentValueColon) + 1))
                       ELSE <<>>
         IN  [st   |-> [st EXCEPT
                          !.deferred_std_qs =
                             IF st.pending_qs # <<>> /\ st.section = "std"
                               THEN st.pending_qs ELSE <<>>,
                          !.section = "pv",
                          !.pending_qs = <<>>],
              cont |-> (rest = <<>>),
              line |-> IF rest # <<>> THEN rest ELSE line]
  ELSE [st |-> st, cont |-> FALSE, line |-> line]

\* the amount of lines 262 and 275: parse_sign(g1) * float(g2.replace(",", ""))
AmountRaises(a_m) == ~FloatOk(Remove(a_m.g2, ","))

AmountValue(a_m) == FMul(parse_sign(a_m.g1), float(Remove(a_m.g2, ",")))

\* a quarter and an amount, the Entry going the way of the deferred queue when
\* that is not empty
QuarterAndAmount_DeferredFirst(st, q_m, a_m, c_m) ==
  LET qs == qstr(int(q_m.g1), int(q_m.g2))
  IN  IF AmountRaises(a_m) THEN [st EXCEPT !.raised = TRUE]
      ELSE IF st.deferred_std_qs # <<>>
        THEN [st EXCEPT !.last_q = qs, !.pending_qs = <<>>,
                        !.deferred_std_qs = Tail(@),
                        !.standard = Append(@, Entry(qs, AmountValue(a_m), c_m))]
      ELSE AppendTarget([st EXCEPT !.last_q = qs, !.pending_qs = <<>>],
                        Entry(qs, AmountValue(a_m), c_m))

\* lines 259-269: the line has a quarter and an amount
QuarterAndAmount(st, q_m, a_m, c_m) ==
  LET qs == qstr(int(q_m.g1), int(q_m.g2))
  IN  IF AmountRaises(a_m) THEN [st EXCEPT !.raised = TRUE]
      ELSE AppendTarget([st EXCEPT !.last_q = qs, !.pending_qs = <<>>],
                        Entry(qs, AmountValue(a_m), c_m))

\* lines 270-273: a quarter and no amount
QuarterOnly(st, q_m) ==
  LET qs == qstr(int(q_m.g1), int(q_m.g2))
  IN  [st EXCEPT !.pending_qs = Append(@, qs), !.last_q = qs]

\* an amount and no quarter, with pending_qs consulted before _deferred_std_qs
AmountOnly_PendingFirst(st, a_m, c_m) ==
  IF AmountRaises(a_m) THEN [st EXCEPT !.raised = TRUE]
  ELSE IF st.pending_qs # <<>>
    THEN AppendTarget([st EXCEPT !.pending_qs = Tail(@)],
                      Entry(Head(st.pending_qs), AmountValue(a_m), c_m))
  ELSE IF st.deferred_std_qs # <<>>
    THEN [st EXCEPT !.deferred_std_qs = Tail(@),
                    !.standard = Append(@, Entry(Head(st.deferred_std_qs), AmountValue(a_m), c_m))]
  ELSE AppendTarget(st, Entry(st.last_q, AmountValue(a_m), c_m))

\* an amount and no quarter, with a deferred quarter emitted into the current section
AmountOnly_DeferredToTarget(st, a_m, c_m) ==
  IF AmountRaises(a_m) THEN [st EXCEPT !.raised = TRUE]
  ELSE IF st.deferred_std_qs # <<>>
    THEN AppendTarget([st EXCEPT !.deferred_std_qs = Tail(@)],
                      Entry(Head(st.deferred_std_qs), AmountValue(a_m), c_m))
  ELSE IF st.pending_qs # <<>>
    THEN AppendTarget([st EXCEPT !.pending_qs = Tail(@)],
                      Entry(Head(st.pending_qs), AmountValue(a_m), c_m))
  ELSE AppendTarget(st, Entry(st.last_q, AmountValue(a_m), c_m))

\* an amount and no quarter, dropped when no quarter has been seen
AmountOnly_NeedsQuarter(st, a_m, c_m) ==
  IF AmountRaises(a_m) THEN [st EXCEPT !.raised = TRUE]
  ELSE IF st.deferred_std_qs # <<>>
    THEN [st EXCEPT !.deferred_std_qs = Tail(@),
                    !.standard = Append(@, Entry(Head(st.deferred_std_qs), AmountValue(a_m), c_m))]
  ELSE IF st.pending_qs # <<>>
    THEN AppendTarget([st EXCEPT !.pending_qs = Tail(@)],
                      Entry(Head(st.pending_qs), AmountValue(a_m), c_m))
  ELSE IF st.last_q = None THEN st
  ELSE AppendTarget(st, Entry(st.last_q, AmountValue(a_m), c_m))

\* lines 274-290: an amount and no quarter
AmountOnly(st, a_m, c_m) ==
  IF AmountRaises(a_m) THEN [st EXCEPT !.raised = TRUE]
  ELSE IF st.deferred_std_qs # <<>>
    THEN [st EXCEPT !.deferred_std_qs = Tail(@),
                    !.standard = Append(@, Entry(Head(st.deferred_std_qs), AmountValue(a_m), c_m))]
  ELSE IF st.pending_qs # <<>>
    THEN AppendTarget([st EXCEPT !.pending_qs = Tail(@)],
                      Entry(Head(st.pending_qs), AmountValue(a_m), c_m))
  ELSE AppendTarget(st, Entry(st.last_q, AmountValue(a_m), c_m))

\* the last index of lst whose entry has no category, 0 when there is none
FirstUncategorized_Last(lst) ==
  LET open == {k \in 1..Len(lst) : lst[k].category = None}
  IN  IF open = {} THEN 0 ELSE Max(open)

\* the first index of lst whose entry has no category, 0 when there is none
FirstUncategorized(lst) ==
  LET open == {k \in 1..Len(lst) : lst[k].category = None}
  IN  IF open = {} THEN 0 ELSE Min(open)

\* the assignment of lines 298-299 with the exogeneity left out
Categorize_CategoryAlone(lst, k, c_m) ==
  [lst EXCEPT ![k] = [@ EXCEPT !.category = c_m.g2]]

\* entry["category"] = ...; entry["exogeneity"] = ..., lines 298-299
Categorize(lst, k, c_m) ==
  [lst EXCEPT ![k] = [@ EXCEPT !.category = c_m.g2, !.exogeneity = c_m.g1]]

\* lines 291-303: a category and neither quarter nor amount
CategoryOnly(st, c_m) ==
  IF FirstUncategorized(st.standard) > 0
    THEN [st EXCEPT !.standard = Categorize(@, FirstUncategorized(@), c_m)]
  ELSE IF FirstUncategorized(st.retroactive) > 0
    THEN [st EXCEPT !.retroactive = Categorize(@, FirstUncategorized(@), c_m)]
  ELSE IF FirstUncategorized(st.present_value) > 0
    THEN [st EXCEPT !.present_value = Categorize(@, FirstUncategorized(@), c_m)]
  ELSE st

\* lines 253-303: the token branches on a content line
ContentLine(st, line) ==
  LET q_m == RE_QUARTER(line)
      a_m == RE_AMOUNT(line)
      c_m == RE_CATEGORY(line)
  IN  IF q_m.ok /\ a_m.ok THEN QuarterAndAmount(st, q_m, a_m, c_m)
      ELSE IF q_m.ok /\ ~a_m.ok THEN QuarterOnly(st, q_m)
      ELSE IF a_m.ok /\ ~q_m.ok THEN AmountOnly(st, a_m, c_m)
      ELSE IF c_m.ok THEN CategoryOnly(st, c_m)
      ELSE st

\* the loop body with pending_qs deferred at "Present Value:" whatever the section
LoopBody_DeferAnySection(st, line) ==
  LET d0 == SectionDetection(st, line)
      d  == IF /\ d0.st.section = "pv"
               /\ StartsWith(line, PresentValueColon)
               /\ st.pending_qs # <<>>
              THEN [d0 EXCEPT !.st.deferred_std_qs = st.pending_qs]
              ELSE d0
  IN  IF d.cont THEN d.st
      ELSE IF d.st.section = "None" THEN d.st
      ELSE ContentLine(d.st, d.line)

\* the loop body with last_q forgotten at a section header
LoopBody_ForgetQuarter(st, line) ==
  LET d == SectionDetection(st, line)
  IN  IF d.cont THEN [d.st EXCEPT !.last_q = None]
      ELSE IF d.st.section = "None" THEN d.st
      ELSE ContentLine(d.st, d.line)

\* the loop body with the section taken as "std" while no header has set it
LoopBody_DefaultStd(st, line) ==
  LET d == SectionDetection(st, line)
  IN  IF d.cont THEN d.st
      ELSE IF d.st.section = "None"
             THEN [ContentLine([d.st EXCEPT !.section = "std"], d.line)
                     EXCEPT !.section = "None"]
      ELSE ContentLine(d.st, d.line)

\* one iteration of the loop of line 221
LoopBody(st, line) ==
  LET d == SectionDetection(st, line)
  IN  IF d.cont THEN d.st
      ELSE IF d.st.section = "None" THEN d.st
      ELSE ContentLine(d.st, d.line)

\* ------------------------------------------------------------------------
\* main (lines 356-391): the labels of one act
\* ------------------------------------------------------------------------
\* the truth value of a str-or-None
Truthy(x) == x # None /\ x # <<>>

\* primary_classification (lines 346-350)
primary_classification(entries) ==
  LET hits == {k \in 1..Len(entries) :
                 Truthy(entries[k].category) /\ Truthy(entries[k].exogeneity)}
  IN  IF hits = {} THEN <<<<>>, <<>>>>
      ELSE <<entries[Min(hits)].category, entries[Min(hits)].exogeneity>>

\* the argument "std or retro" of line 384
StdOrRetro(std, retro) == IF std # <<>> THEN std ELSE retro

\* lines 385-391: the labels of the act, each with the act's classification
ActLabels(act_name, labels, std, retro) ==
  LET ce == primary_classification(StdOrRetro(std, retro))
  IN  [k \in 1..Len(labels) |->
         [act_name   |-> act_name,
          exogeneity |-> ce[2],
          category   |-> ce[1],
          motivation |-> labels[k].motivation,
          source     |-> labels[k].source,
          date       |-> labels[k].date]]

\* ------------------------------------------------------------------------
\* extract_labels (lines 323-343)
\* ------------------------------------------------------------------------
\* \w of the re module, restricted to ASCII
Lower ==
  {"a", "b", "c", "d", "e", "f", "g", "h", "i", "j", "k", "l", "m", "n", "o", "p", "q", "r", "s", "t", "u", "v", "w", "x", "y", "z"}

Upper ==
  {"A", "B", "C", "D", "E", "F", "G", "H", "I", "J", "K", "L", "M", "N", "O", "P", "Q", "R", "S", "T", "U", "V", "W", "X", "Y", "Z"}

WordChar == Lower \cup Upper \cup Digit \cup {"_"}

\* the characters " “ ”
DoubleQuote == "\""

LeftQuote == "u201c"

RightQuote == "u201d"

\* the number of characters of s from position pos on that precede the first one
\* at or after pos for which In(c) is false
SpanOf(s, pos, In(_)) ==
  LET stop == {j \in pos..Len(s) : ~In(s[j])}
  IN  IF pos > Len(s) THEN 0
      ELSE IF stop = {} THEN Len(s) - pos + 1
      ELSE Min(stop) - pos

\* x[-k:] of a str
LastChars(s, k) == IF Len(s) <= k THEN s ELSE SubSeq(s, Len(s) - k + 1, Len(s))

\* the next match of re.finditer(r'["“]([^"”]+)["”]', s) at or after
\* the 0-based position from0; start and end are m.start() and m.end()
RE_QUOTE(s, from0) ==
  LET inner(c) == c \notin {DoubleQuote, RightQuote}
      glen(p)  == SpanOf(s, p + 1, inner)
      at(p)    == /\ s[p] \in {DoubleQuote, LeftQuote}
                  /\ glen(p) >= 1
                  /\ p + 1 + glen(p) <= Len(s)
      hits     == {p \in (from0 + 1)..Len(s) : at(p)}
  IN  IF hits = {} THEN [ok |-> FALSE, start |-> 0, end |-> 0, g1 |-> <<>>]
      ELSE LET p == Min(hits)
           IN  [ok |-> TRUE, start |-> p - 1, end |-> p + 1 + glen(p),
                g1 |-> SubSeq(s, p + 1, p + glen(p))]

\* the optional prefix (?:in (?:his|her|the|a) ) of line 333
SourcePrefixes ==
  { <<"i","n"," ","h","i","s"," ">>,
    <<"i","n"," ","h","e","r"," ">>,
    <<"i","n"," ","t","h","e"," ">>,
    <<"i","n"," ","a"," ">> }

\* (?:stated|said|reported|announced|noted|wrote)
SourceVerbs ==
  { <<"s","t","a","t","e","d">>,
    <<"s","a","i","d">>,
    <<"r","e","p","o","r","t","e","d">>,
    <<"a","n","n","o","u","n","c","e","d">>,
    <<"n","o","t","e","d">>,
    <<"w","r","o","t","e">> }

\* (?:Economic Report|Budget|Treasury) of line 334
SourceDocuments ==
  { <<"E","c","o","n","o","m","i","c"," ","R","e","p","o","r","t">>,
    <<"B","u","d","g","e","t">>,
    <<"T","r","e","a","s","u","r","y">> }

VerbAt(s, v) == \E w \in SourceVerbs : MatchAt(s, v, w)

\* ([\w\s]+?)\s*(?:stated|...) with the group starting at position g: the last
\* position of the shortest group that lets the rest match, 0 when none does.
\* Every character from g up to the verb is in [\w\s], the verb is the first one
\* after g, and the group stops before the whitespace in front of the verb, but
\* has one character at least
SourceGroupEnd(s, g) ==
  LET ws(c)  == c \in WordChar \cup Space
      sp(c)  == c \in Space
      reach  == g + SpanOf(s, g, ws)
      verbs  == {v \in (g + 1)..Min({reach, Len(s)}) : VerbAt(s, v)}
  IN  IF g > Len(s) \/ ~ws(s[g]) \/ verbs = {} THEN 0
      ELSE LET v      == Min(verbs)
               nonsp  == {j \in g..(v - 1) : ~sp(s[j])}
           IN  IF nonsp = {} THEN g ELSE Max(nonsp)

\* the first alternative of the pattern of lines 333-334 tried at position p:
\* the prefix is taken when the rest matches after it, else left out
SourceNameAt(s, p) ==
  LET pre  == {w \in SourcePrefixes : MatchAt(s, p, w)}
      g    == IF pre = {} THEN p ELSE p + Len(CHOOSE w \in pre : TRUE)
  IN  IF pre # {} /\ SourceGroupEnd(s, g) # 0
        THEN [ok |-> TRUE, g1 |-> SubSeq(s, g, SourceGroupEnd(s, g))]
      ELSE IF SourceGroupEnd(s, p) # 0
        THEN [ok |-> TRUE, g1 |-> SubSeq(s, p, SourceGroupEnd(s, p))]
      ELSE [ok |-> FALSE, g1 |-> <<>>]

\* the second alternative, (\d{4}\s+(?:Economic Report|Budget|Treasury)), at p
SourceDocumentAt(s, p) ==
  LET sp(c) == c \in Space
      gap   == SpanOf(s, p + 4, sp)
      docs  == {w \in SourceDocuments : MatchAt(s, p + 4 + gap, w)}
  IN  IF /\ p + 3 <= Len(s)
         /\ \A j \in p..(p + 3) : s[j] \in Digit
         /\ gap >= 1
         /\ docs # {}
        THEN [ok |-> TRUE,
              g1 |-> SubSeq(s, p, p + 3 + gap + Len(CHOOSE w \in docs : TRUE))]
      ELSE [ok |-> FALSE, g1 |-> <<>>]

\* lines 332-338: (src_m.group(1) or src_m.group(2) or "").strip() of the leftmost
\* match, "" when the pattern matches nowhere
SourceSearch(s) ==
  LET hits == {p \in 1..Len(s) : SourceNameAt(s, p).ok \/ SourceDocumentAt(s, p).ok}
  IN  IF hits = {} THEN <<>>
      ELSE LET p == Min(hits)
           IN  IF SourceNameAt(s, p).ok THEN strip(SourceNameAt(s, p).g1)
               ELSE strip(SourceDocumentAt(s, p).g1)

\* lines 339-341: the text of the leftmost \d{1,2}/\d{1,2}/\d{2,4}, "" when none
DateSearch(s) ==
  LET m == RE_MDY(s)
  IN  IF m.ok
        THEN SubSeq(s, m.start + 1, m.start + Len(m.g1) + Len(m.g2) + Len(m.g3) + 2)
      ELSE <<>>

\* narrative[max(0, m.start() - 300):m.start()], line 329
Preceding(s, start) == SubSeq(s, Max({0, start - 300}) + 1, start)

\* the test of line 327 on the quote before strip()
Retained_Unstripped(m) == Len(m.g1) >= 15

\* lines 326-328: the quote of a match is kept when it has 15 characters or more
Retained(m) == Len(strip(m.g1)) >= 15

\* lines 326-342: the label of one match whose quote is kept
LabelOf(s, m) ==
  [motivation |-> strip(m.g1),
   source     |-> SourceSearch(LastChars(Preceding(s, m.start), 200)),
   date       |-> DateSearch(LastChars(Preceding(s, m.start), 150))]

\* extract_labels (lines 323-343) on the rest of s from the 0-based position from0
RECURSIVE LabelsFrom(_, _)
LabelsFrom(s, from0) ==
  LET m == RE_QUOTE(s, from0)
  IN  IF ~m.ok THEN <<>>
      ELSE IF ~Retained(m) THEN LabelsFrom(s, m.end)
      ELSE <<LabelOf(s, m)>> \o LabelsFrom(s, m.end)

extract_labels(s) == LabelsFrom(s, 0)

\* ------------------------------------------------------------------------
\* find_act_blocks (lines 80-136)
\* ------------------------------------------------------------------------
\* the words RE_SIGNED starts with
SigningWords ==
  { <<"S","i","g","n","e","d">>,
    <<"D","a","t","e">>,
    <<"E","f","f","e","c","t","i","v","e">> }

\* \s
IsSpace(c) == c \in Space

\* RE_SIGNED.match(s): ^(Signed|Date|Effective):\s+(.+)$; g2 is group(2), what is
\* left after the whitespace, or the last whitespace character when nothing is
RE_SIGNED(s) ==
  LET words == {w \in SigningWords : StartsWith(s, w \o <<":">>)}
      after == Len(CHOOSE w \in words : TRUE) + 2
      gap   == SpanOf(s, after, IsSpace)
  IN  IF words = {} \/ gap = 0 THEN [ok |-> FALSE, g2 |-> <<>>]
      ELSE IF after + gap <= Len(s) THEN [ok |-> TRUE, g2 |-> From(s, after + gap)]
      ELSE IF gap >= 2 THEN [ok |-> TRUE, g2 |-> <<s[Len(s)]>>]
      ELSE [ok |-> FALSE, g2 |-> <<>>]

\* "II. ACT-BY-ACT SUMMARY", line 85
PartTwoMarker ==
  <<"I","I","."," ","A","C","T","-","B","Y","-","A","C","T"," ","S","U","M","M","A","R","Y">>

\* "REFERENCES", line 125
References ==
  <<"R","E","F","E","R","E","N","C","E","S">>

\* lines[k] of a Python list, for k from -len(lines) to len(lines) - 1
PyIndex(lines, k) == IF k >= 0 THEN lines[k + 1] ELSE lines[Len(lines) + k + 1]

\* lines[a:b] of a Python list, for a >= 0
PySlice(lines, a, b) ==
  LET stop == IF b < 0 THEN Max({0, Len(lines) + b}) ELSE Min({b, Len(lines)})
  IN  SubSeq(lines, a + 1, stop)

\* lines 83-87: the index of the first line that holds the marker, 0 when none does
Part2_DocumentBegin(lines) == 0

Part2(lines) ==
  LET hits == {k \in 0..(Len(lines) - 1) : Contains(lines[k + 1], PartTwoMarker)}
  IN  IF hits = {} THEN 0 ELSE Min(hits)

\* the elements of a set of numbers in ascending order
RECURSIVE Ascending(_)
Ascending(S) ==
  IF S = {} THEN <<>> ELSE <<Min(S)>> \o Ascending(S \ {Min(S)})

\* lines 89-93
SignedIndices(lines, first) ==
  Ascending({k \in first..(Len(lines) - 1) : RE_SIGNED(strip(lines[k + 1])).ok})

\* "while nl > 0 and not lines[nl].strip(): nl -= 1", lines 99-100 and 115-116
WalkUp(lines, nl) ==
  IF nl <= 0 THEN nl
  ELSE Max({k \in 0..nl : k = 0 \/ strip(lines[k + 1]) # <<>>})

\* lines 98-106 and 114-120: the index the upward walk from the signing line at
\* index si ends at
NameIndex(lines, si) ==
  LET nl == WalkUp(lines, si - 1)
  IN  IF RE_PAGE_NUM(strip(PyIndex(lines, nl))) THEN WalkUp(lines, nl - 1) ELSE nl

\* lines 111-127: end, for the act at position ix (0-based) of the indices sis
BlockEnd_NextSigned(lines, sis, ix) ==
  IF ix + 1 < Len(sis) THEN sis[ix + 2] ELSE Len(lines)

\* end, with every act going on to "REFERENCES" or the end of the document
BlockEnd_ToReferences(lines, sis, ix) ==
  LET hits == {k \in sis[ix + 1]..(Len(lines) - 1) : strip(lines[k + 1]) = References}
  IN  IF hits = {} THEN Len(lines) ELSE Min(hits)

BlockEnd(lines, sis, ix) ==
  IF ix + 1 < Len(sis) THEN NameIndex(lines, sis[ix + 2])
  ELSE LET hits == {k \in sis[ix + 1]..(Len(lines) - 1) : strip(lines[k + 1]) = References}
       IN  IF hits = {} THEN Len(lines) ELSE Min(hits)

\* lines 96-134: the act of the signing line at position ix (0-based) of sis
ActOf(lines, sis, ix) ==
  LET si        == sis[ix + 1]
      date_part == RE_SIGNED(strip(lines[si + 1])).g2
  IN  [act_name    |-> strip(PyIndex(lines, NameIndex(lines, si))),
       signed_raw  |-> strip(date_part),
       date_signed |-> parse_date_signed(date_part),
       raw_lines   |-> PySlice(lines, si + 1, BlockEnd(lines, sis, ix))]

\* find_act_blocks
find_act_blocks(lines) ==
  LET sis == SignedIndices(lines, Part2(lines))
  IN  [ix \in 1..Len(sis) |-> ActOf(lines, sis, ix - 1)]

\* ------------------------------------------------------------------------
\* download_blocked_pdfs.py: download_pdf (lines 56-79)
\* ------------------------------------------------------------------------
\* line 56
MAX_RETRIES == 3

\* line 57
BACKOFF_BASE == 2

\* what download_pdf does that its caller can see: a call of requests.get, a
\* failure message on stderr, time.sleep(s)
Requested == [ev |-> "get", s |-> 0]

Failed == [ev |-> "failed", s |-> 0]

Slept(s) == [ev |-> "sleep", s |-> s]

\* a wait that does not grow with the attempt
Backoff_Base(a) == BACKOFF_BASE

\* line 74
Backoff(a) == BACKOFF_BASE ^ a

\* lines 73-78: the except clause of attempt a
RequestFailed(lg, a) ==
  lg \o <<Failed>> \o (IF a < MAX_RETRIES THEN <<Slept(Backoff(a))>> ELSE <<>>)

\* ------------------------------------------------------------------------
\* lambda_handler.py: handler (lines 240-343)
\* ------------------------------------------------------------------------
\* "Missing required parameters: pdf_url and output_key", line 282
MissingParameters ==
  <<"M","i","s","s","i","n","g"," ","r","e","q","u","i","r","e","d"," ","p","a","r","a","m","e","t","e","r","s",":"," ","p","d","f","_","u","r","l"," ","a","n","d"," ","o","u","t","p","u","t","_","k","e","y">>

\* "S3 upload failed: ", lines 336-338
S3UploadFailed ==
  <<"S","3"," ","u","p","l","o","a","d"," ","f","a","i","l","e","d",":"," ">>

\* "; ", line 336
Semicolon == <<";", " ">>

\* lines 287-294
InitialPayload(output_key) ==
  [pages |-> <<>>, tables |-> <<>>, n_pages |-> 0, n_tables |-> 0,
   error |-> None, s3_key |-> output_key]

\* lines 306-309
Extracted(pl, result) ==
  [pl EXCEPT !.pages = result.pages, !.tables = result.tables,
             !.n_pages = Len(result.pages), !.n_tables = Len(result.tables)]

\* lines 316-321: message is str(exc)
ExtractionFailed(pl, message) ==
  [pl EXCEPT !.error = message, !.n_pages = 0, !.n_tables = 0,
             !.pages = <<>>, !.tables = <<>>]

\* lines 335-338: message is str(s3_exc)
UploadError(error, message) ==
  IF Truthy(error) THEN error \o Semicolon \o S3UploadFailed \o message
  ELSE S3UploadFailed \o message

\* line 341
StatusCode(pl) == IF ~Truthy(pl.error) THEN 200 ELSE 500

\* lines 340-343, the body being the dict json.dumps encodes
Response(pl) == [statusCode |-> StatusCode(pl), body |-> pl]

\* ------------------------------------------------------------------------
\* pymupdf_extract.py: the OCR path of extract_pdf (lines 74-87 and 119-140)
\* ------------------------------------------------------------------------
\* what page.get_text(textpage=tp) returns for the page at index page_num
OcrText(page_num) == <<"text of page", page_num>>

\* line 84: f"[OCR Error on page {page_num + 1}: {e}]"
OcrErrorText(page_num) == <<"[OCR Error on page", page_num + 1>>

\* extract_page_with_ocr with the OCR calls outside any try
extract_page_with_ocr_NoTry(kind, page_num) ==
  IF kind = "scan"
    THEN [raised |-> FALSE, page_num |-> page_num, text |-> OcrText(page_num)]
    ELSE [raised |-> TRUE, page_num |-> page_num, text |-> <<>>]

\* extract_page_with_ocr (lines 74-87) on a page of the given kind: what the
\* future of the page holds, the (page_num, text) returned or an exception.
\* doc[page_num] of a damaged page raises at line 78, outside the try; the OCR of
\* a garbled page raises at line 81, inside it
extract_page_with_ocr(kind, page_num) ==
  IF kind = "damaged"
    THEN [raised |-> TRUE, page_num |-> page_num, text |-> <<>>]
    ELSE [raised   |-> FALSE,
          page_num |-> page_num,
          text     |-> IF kind = "garbled" THEN OcrErrorText(page_num)
                       ELSE OcrText(page_num)]

\* the future of a page before it is done
NoResult == [raised |-> FALSE, page_num |-> -1, text |-> <<>>]

\* ------------------------------------------------------------------------
\* download_blocked_pdfs.py: main (lines 161-247)
\* ------------------------------------------------------------------------
\* line 241: the number printed before "skipped (cached)"
SkippedPrinted(tot, nrows, ok, ko) == tot - nrows - ok - ko

\* lines 240-242: the three numbers of the "Results:" line
ResultsLine(tot, nrows, ok, ko) == <<ok, ko, SkippedPrinted(tot, nrows, ok, ko)>>

\* a call main makes for a row
Called_download_pdf(row) == [row |-> row, call |-> "download_pdf"]

Called_extract_pdf(row) == [row |-> row, call |-> "extract_pdf"]

\* ------------------------------------------------------------------------
\* Inputs
\* ------------------------------------------------------------------------
\* "Change in Liabilities (excluding retroactive changes):"
L_Excl ==
  <<"C","h","a","n","g","e"," ","i","n"," ","L","i","a","b","i","l","i","t","i","e","s"," ","(","e","x","c","l","u","d","i","n","g"," ","r","e","t","r","o","a","c","t","i","v","e"," ","c","h","a","n","g","e","s",")",":">>

\* "Change in Liabilities (including retroactive changes):"
L_Incl ==
  <<"C","h","a","n","g","e"," ","i","n"," ","L","i","a","b","i","l","i","t","i","e","s"," ","(","i","n","c","l","u","d","i","n","g"," ","r","e","t","r","o","a","c","t","i","v","e"," ","c","h","a","n","g","e","s",")",":">>

\* "Change in Liabilities:"
L_Bare ==
  <<"C","h","a","n","g","e"," ","i","n"," ","L","i","a","b","i","l","i","t","i","e","s",":">>

\* "Present Value:"
L_PV ==
  <<"P","r","e","s","e","n","t"," ","V","a","l","u","e",":">>

\* "Present Value: +$4.0 billion"
L_PVAmount ==
  <<"P","r","e","s","e","n","t"," ","V","a","l","u","e",":"," ","+","$","4",".","0"," ","b","i","l","l","i","o","n">>

\* "2009Q1"
L_2009Q1 ==
  <<"2","0","0","9","Q","1">>

\* "2010Q1"
L_2010Q1 ==
  <<"2","0","1","0","Q","1">>

\* "2010Q2"
L_2010Q2 ==
  <<"2","0","1","0","Q","2">>

\* "-$12.3 billion"
L_Minus12_3 ==
  <<"-","$","1","2",".","3"," ","b","i","l","l","i","o","n">>

\* "+$4.0 billion"
L_Plus4 ==
  <<"+","$","4",".","0"," ","b","i","l","l","i","o","n">>

\* "(Endogenous: Countercyclical)"
L_Cat ==
  <<"(","E","n","d","o","g","e","n","o","u","s",":"," ","C","o","u","n","t","e","r","c","y","c","l","i","c","a","l",")">>

\* "2011Q3 −$2 billion (Exogenous; Long-run)"
L_QAC ==
  <<"2","0","1","1","Q","3"," ","u2212","$","2"," ","b","i","l","l","i","o","n"," ","(","E","x","o","g","e","n","o","u","s",";"," ","L","o","n","g","-","r","u","n",")">>

\* "–$1,000.5 billion (Endogenous, Spending-driven)"
L_EnAC ==
  <<"u2013","$","1",",","0","0","0",".","5"," ","b","i","l","l","i","o","n"," ","(","E","n","d","o","g","e","n","o","u","s",","," ","S","p","e","n","d","i","n","g","-","d","r","i","v","e","n",")">>

\* "2009Q7 —$.5 billion"
L_EmQA ==
  <<"2","0","0","9","Q","7"," ","u2014","$",".","5"," ","b","i","l","l","i","o","n">>

\* "-$1.2.3 billion"
L_BadNum ==
  <<"-","$","1",".","2",".","3"," ","b","i","l","l","i","o","n">>

\* "+ see note"
L_Sign ==
  <<"+"," ","s","e","e"," ","n","o","t","e">>

\* header lines as clean_header_area hands them over: stripped, non-blank, structural
Structural(S) ==
  {l : l \in {x \in S : x = strip(x) /\ x # <<>> /\ ~PageNumber(x) /\ ~FootnoteMarker(x) /\ is_structural(x)}}

\* the header lines of Spec: section headers, quarters and amounts in separate lines
HeaderLines ==
  Structural({L_Excl, L_Incl, L_PV, L_PVAmount, L_2009Q1, L_2010Q1, L_2010Q2,
              L_Minus12_3, L_Plus4, L_Cat})

\* the header lines of SpecMain: every sign glyph, categories in the amount's line
ActHeaderLines ==
  Structural({L_Excl, L_Incl, L_Bare, L_Minus12_3, L_Plus4, L_Cat, L_QAC, L_EnAC,
              L_EmQA, L_BadNum, L_Sign})

\* "Tax Act"
ActName ==
  <<"T","a","x"," ","A","c","t">>

\* labels as extract_labels returns them: motivation, source, date
Label1 ==
  [motivation |-> <<"t","o"," ","r","e","d","u","c","e"," ","t","h","e"," ","b","u","d","g","e","t"," ","d","e","f","i","c","i","t">>,
   source     |-> <<"t","h","e"," ","S","e","c","r","e","t","a","r","y">>,
   date       |-> <<"0","1","/","0","2","/","2","0","0","3">>]

Label2 ==
  [motivation |-> <<"a"," ","l","o","n","g","-","r","u","n"," ","r","e","f","o","r","m"," ","o","f"," ","t","a","x","e","s">>,
   source     |-> <<>>,
   date       |-> <<>>]

LabelLists == {<<>>, <<Label1>>, <<Label1, Label2>>}

\* the texts after "Signed:": text, month, "/", day, "/" or "-", year, text
DateInputs ==
  {p \o m \o <<"/">> \o d \o sep \o y \o s :
     p \in {<<>>, <<"D","e","c","e","m","b","e","r"," ">>},
     m \in {<<"1">>, <<"1","2">>},
     d \in {<<"7">>, <<"3","1">>},
     sep \in {<<"/">>, <<"-">>},
     y \in {<<"0","3">>, <<"4","4">>, <<"4","5">>, <<"9","9">>, <<"1","9","4">>,
            <<"1","9","4","5">>, <<"2","0","0","3">>, <<"0","0","4","5">>,
            <<"1","9","4","5","1">>, <<"7">>},
     s \in {<<>>, <<".", " ">>}}

\* ""
R_Blank ==
  <<>>

\* " 42 "
R_Page42 ==
  <<" ","4","2"," ">>

\* "17"
R_Page17 ==
  <<"1","7">>

\* "95"
R_Page95 ==
  <<"9","5">>

\* "16"
R_Num16 ==
  <<"1","6">>

\* "-$12.3 billion"
R_Amount ==
  <<"-","$","1","2",".","3"," ","b","i","l","l","i","o","n">>

\* "The  act	was signed."
R_Text ==
  <<"T","h","e"," "," ","a","c","t","\t","w","a","s"," ","s","i","g","n","e","d",".">>

RawLines == {R_Blank, R_Page42, R_Page17, R_Page95, R_Num16, R_Amount, R_Text}

\* the number of header lines of an act in Spec
MaxLines == 5

\* the number of header lines of an act in SpecMain
MaxActLines == 4

\* the number of lines of an act's raw body
MaxRaw == 4

RawBlocks == UNION {[1..k -> RawLines] : k \in 0..MaxRaw}

\* the pieces the narratives of SpecLabels are put together from
\* 01/02/2003
N_Date ==
  <<"0","1","/","0","2","/","2","0","0","3">>

\* 01/02/2003,
N_DateComma ==
  <<"0","1","/","0","2","/","2","0","0","3",",">>

\* 3/4/99;
N_OtherDate ==
  <<"3","/","4","/","9","9",";">>

\* the Secretary stated
N_Secretary ==
  <<"t","h","e"," ","S","e","c","r","e","t","a","r","y"," ","s","t","a","t","e","d">>

\* The President said:
N_President ==
  <<"T","h","e"," ","P","r","e","s","i","d","e","n","t"," ","s","a","i","d",":">>

\* "abcdefghij klmnopqrs"
N_Quote20 ==
  <<"\"","a","b","c","d","e","f","g","h","i","j"," ","k","l","m","n","o","p","q","r","s","\"">>

\* " fourteen chars "
N_Padded ==
  <<"\""," ","f","o","u","r","t","e","e","n"," ","c","h","a","r","s"," ","\"">>

\* “that taxes were too high”
N_Curly ==
  <<"u201c","t","h","a","t"," ","t","a","x","e","s"," ","w","e","r","e"," ","t","o","o"," ","h","i","g","h","u201d">>

\* 140 times ;
N_Filler ==
  <<";",";",";",";",";",";",";",";",";",";",";",";",";",";",";",";",";",";",";",";",";",";",";",";",";",";",";",";",";",";",";",";",";",";",";",";",";",";",";",";",";",";",";",";",";",";",";",";",";",";",";",";",";",";",";",";",";",";",";",";",";",";",";",";",";",";",";",";",";",";",";",";",";",";",";",";",";",";",";",";",";",";",";",";",";",";",";",";",";",";",";",";",";",";",";",";",";",";",";",";",";",";",";",";",";",";",";",";",";",";",";",";",";",";",";",";",";",";",";",";",";",";",";",";",";",";",";",";",";",";",";",";",";",";",";",";",";",";",";",";">>

Pieces ==
  {N_Date,
   N_DateComma,
   N_OtherDate,
   N_Secretary,
   N_President,
   N_Quote20,
   N_Padded,
   N_Curly,
   N_Filler}

\* the number of pieces of a narrative
MaxPieces == 3

\* the narratives extract_labels is run on: up to MaxPieces pieces joined by single
\* spaces, as line 320 returns them (no piece has whitespace at its ends or doubled)
NarrativeInputs ==
  {Join(ps) : ps \in UNION {[1..len -> Pieces] : len \in 1..MaxPieces}}

\* the lines the documents of SpecFind are made of
\* ""
D_Blank ==
  <<>>

\* "42"
D_Page ==
  <<"4","2">>

\* "II. ACT-BY-ACT SUMMARY"
D_Marker ==
  <<"I","I","."," ","A","C","T","-","B","Y","-","A","C","T"," ","S","U","M","M","A","R","Y">>

\* "ACT-BY-ACT SUMMARY"
D_BareMarker ==
  <<"A","C","T","-","B","Y","-","A","C","T"," ","S","U","M","M","A","R","Y">>

\* "Signed: 1/7/03"
D_Signed ==
  <<"S","i","g","n","e","d",":"," ","1","/","7","/","0","3">>

\* " Effective:  12/31/45 "
D_Effective ==
  <<" ","E","f","f","e","c","t","i","v","e",":"," "," ","1","2","/","3","1","/","4","5"," ">>

\* "Date:"
D_NoValue ==
  <<"D","a","t","e",":">>

\* "Tax Act"
D_Name ==
  <<"T","a","x"," ","A","c","t">>

\* "REFERENCES"
D_References ==
  <<"R","E","F","E","R","E","N","C","E","S">>

\* " REFERENCES "
D_ReferencesPadded ==
  <<" ","R","E","F","E","R","E","N","C","E","S"," ">>

DocLines ==
  {D_Blank,
   D_Page,
   D_Marker,
   D_BareMarker,
   D_Signed,
   D_Effective,
   D_NoValue,
   D_Name,
   D_References,
   D_ReferencesPadded}

\* the number of lines of a document
MaxDoc == 4

\* text.split("\n") of the documents find_act_blocks is run on
Documents == UNION {[1..len -> DocLines] : len \in 1..MaxDoc}

\* the header lines of the acts of SpecActs
ActBlockLines == Structural({L_Excl, L_Incl, L_2009Q1, L_Minus12_3, L_QAC})

\* the number of header lines of an act in SpecActs
MaxBlock == 2

ActBlocks == UNION {[1..k -> ActBlockLines] : k \in 0..MaxBlock}

\* what extract_labels returns for the narrative of an act of SpecActs
ActLabelLists == {<<>>, <<Label1>>}

\* the header_lines of the two acts of a document, in the order of acts
ActDocuments == {<<a, b>> : a \in ActBlocks, b \in ActBlocks}

\* the chunks of a response body, and the bodies of SpecDownload
Chunks == {"c1", "c2"}

\* the number of chunks of a response body
MaxChunks == 3

Bodies == UNION {[1..k -> Chunks] : k \in 0..MaxChunks}

\* event.get("pdf_url"), event.get("output_key"): absent, empty, or a value
UrlInputs == {None, <<>>, <<"u","1">>, <<"u","2">>}

KeyInputs == {None, <<>>, <<"k","1">>, <<"k","2">>}

Events == [pdf_url : UrlInputs, output_key : KeyInputs]

\* str(exc) of the exceptions caught at lines 316 and 333: an exception raised
\* without a message, as AssertionError() or TimeoutError(), has the str ""
ExceptionMessages == {<<>>, <<"t","i","m","e","d"," ","o","u","t">>}

\* what _extract_pages_with_docling returns
DoclingResults ==
  {[pages |-> <<"p1">>, tables |-> <<>>],
   [pages |-> <<"p1", "p2">>, tables |-> <<"t1">>]}

\* lines of a raw body that the classifier and the lookahead of clean_header_area
\* tell differently
\* "The committee expected the change to take effect in 1984Q1 and to last for the whole decade."
R_LongQuarter ==
  <<"T","h","e"," ","c","o","m","m","i","t","t","e","e"," ","e","x","p","e","c","t","e","d"," ","t","h","e"," ","c","h","a","n","g","e"," ","t","o"," ","t","a","k","e"," ","e","f","f","e","c","t"," ","i","n"," ","1","9","8","4","Q","1"," ","a","n","d"," ","t","o"," ","l","a","s","t"," ","f","o","r"," ","t","h","e"," ","w","h","o","l","e"," ","d","e","c","a","d","e",".">>

\* "- see the table"
R_Dash ==
  <<"-"," ","s","e","e"," ","t","h","e"," ","t","a","b","l","e">>

\* "See Present Value."
R_PVNote ==
  <<"S","e","e"," ","P","r","e","s","e","n","t"," ","V","a","l","u","e",".">>

\* the raw bodies of SpecAhead
AheadLines == {R_Blank, R_Page42, R_Amount, R_Text, R_LongQuarter, R_Dash, R_PVNote}

AheadBlocks == UNION {[1..k -> AheadLines] : k \in 0..MaxRaw}

\* "96"
R_Num96 ==
  <<"9","6">>

\* raw lines with numbers inside and outside the two skipped ranges
NumberLines == {R_Blank, R_Num96, R_Num16, R_Amount, R_Text}

NumberBlocks == UNION {[1..k -> NumberLines] : k \in 0..MaxRaw}

\* the header lines of SpecQueues: every kind of section header, quarter lines,
\* amount lines, a category line and lines with a quarter and an amount
QueueLines ==
  Structural({L_Excl, L_Incl, L_Bare, L_PV, L_PVAmount, L_2009Q1, L_2010Q1,
              L_Minus12_3, L_Cat, L_QAC, L_EmQA})

\* the number of header lines of an act in SpecQueues
MaxQueue == 4


\* the pages of the documents of SpecOcr: OCR gives text, OCR raises, the page
\* cannot be loaded
PageKinds == {"scan", "garbled", "damaged"}

\* the number of pages of a document
MaxPages == 3

\* the largest max_workers
MaxWorkers == 2

ScannedDocuments == UNION {[1..len -> PageKinds] : len \in 0..MaxPages}


\* the rows of the CSV files of SpecBatch; two of them name the same cache file
CsvRows ==
  {[pdf_url |-> "u1", cache_file |-> "a.json"],
   [pdf_url |-> "u2", cache_file |-> "b.json"],
   [pdf_url |-> "u3", cache_file |-> "a.json"]}

\* the number of rows of a CSV file
MaxRows == 3

CsvFiles == UNION {[1..len -> CsvRows] : len \in 1..MaxRows}

\* the cache files output_dir can hold when main starts
CacheFiles == {"a.json", "b.json"}

\* ------------------------------------------------------------------------
\* State
\* ------------------------------------------------------------------------
VARIABLES
  pc,               \* the function the program is in, "done", or "raised"
  n,                \* parse_header: the number of header lines consumed
  header_line,      \* parse_header: the element of header_lines of the last iteration
  section,          \* parse_header: section, "None" for None
  last_q,           \* parse_header: last_q
  pending_qs,       \* parse_header: pending_qs
  deferred_std_qs,  \* parse_header: _deferred_std_qs
  standard,         \* parse_header: standard
  retroactive,      \* parse_header: retroactive
  present_value,    \* parse_header: present_value
  all_labels,       \* main: the labels written for the act
  raw,              \* parse_date_signed: raw
  date_signed,      \* the value parse_date_signed returned, None before it did
  raw_lines,        \* clean_header_area, extract_narrative: raw_lines
  i,                \* clean_header_area: i
  header,           \* clean_header_area: header
  narr_start,       \* main: narr_start, -1 before clean_header_area returned
  narrative,        \* main: narrative, None before extract_narrative returned
  labels_out,       \* extract_labels: labels
  scan,             \* extract_labels: the 0-based position re.finditer searches from
  calls,            \* the number of earlier calls of clean_header_area on raw_lines
  prev,             \* what the first call of clean_header_area returned
  doc,              \* find_act_blocks: lines
  part2,            \* find_act_blocks: part2
  signed_indices,   \* find_act_blocks: signed_indices
  acts,             \* find_act_blocks: acts
  idx,              \* find_act_blocks: idx of "for idx, si in enumerate(signed_indices)"
  doc_headers,      \* main: the header_lines of each act of acts, in order
  act_no,           \* main: the 1-based position of "for act in acts"
  attempt,          \* download_pdf: attempt, 0 before the loop
  log,              \* download_pdf: the requests, failure messages and sleeps so far
  resp,             \* download_pdf: the chunks resp.iter_content has yet to give
  dest_file,        \* download_pdf: the chunks written to dest
  dl_result,        \* download_pdf: "True" or "False" once returned, "None" before
  event,            \* handler: event
  boto3,            \* handler: the module boto3, "None" when its import failed
  payload,          \* handler: payload, None before line 287
  response,         \* handler: the dict returned, None before the return
  effects,          \* handler: the calls made to the network, Docling and S3 so far
  pdf,              \* extract_pdf: the kinds of the pages of the document at pdf_path
  max_workers,      \* extract_pdf: max_workers
  futures,          \* extract_pdf: the state of the future of each page
  results,          \* extract_pdf: what each future holds once it is done
  pages_text,       \* extract_pdf: pages_text
  completed,        \* extract_pdf: completed
  written,          \* extract_pdf: the indices assigned at line 134, in order
  rows,             \* download main: rows
  total,            \* download main: total
  cache,            \* download main: the cache files that exist in output_dir
  dry_run,          \* download main: args.dry_run
  scanned,          \* download main: the rows the loop of line 168 has seen
  to_process,       \* download main: to_process
  skipped,          \* download main: skipped
  row_no,           \* download main: the rows the loop of line 195 has finished
  success,          \* download main: success
  failed,           \* download main: failed
  failed_urls,      \* download main: failed_urls
  fetched,          \* download main: the calls of download_pdf and extract_pdf so far
  summary           \* download main: the numbers of the "Results:" line, once printed

hvars ==
  <<n, header_line, section, last_q, pending_qs, deferred_std_qs,
    standard, retroactive, present_value, all_labels>>

dvars == <<raw, date_signed>>

cvars == <<raw_lines, i, header, narr_start, narrative>>

lvars == <<labels_out, scan>>

ivars == <<calls, prev>>

fvars == <<doc, part2, signed_indices, acts, idx>>

mvars == <<doc_headers, act_no>>

nvars == <<attempt, log, resp, dest_file, dl_result>>

avars == <<event, boto3, payload, response, effects>>

pvars == <<pdf, max_workers, futures, results, pages_text, completed, written>>

bvars == <<rows, total, cache, dry_run, scanned, to_process, skipped, row_no,
          success, failed, failed_urls, fetched, summary>>

ovars == <<nvars, avars, pvars, bvars>>

xvars == <<lvars, ivars, fvars, mvars, ovars>>

vars == <<pc, hvars, dvars, cvars, xvars>>

\* the locals of parse_header as one record
Locals ==
  [section |-> section, last_q |-> last_q, pending_qs |-> pending_qs,
   deferred_std_qs |-> deferred_std_qs, standard |-> standard,
   retroactive |-> retroactive, present_value |-> present_value, raised |-> FALSE]

\* parse_header, lines 212-219
HeaderInit ==
  /\ n = 0
  /\ header_line = <<>>
  /\ section = "None"
  /\ last_q = None
  /\ pending_qs = <<>>
  /\ deferred_std_qs = <<>>
  /\ standard = <<>>
  /\ retroactive = <<>>
  /\ present_value = <<>>
  /\ all_labels = <<>>

DateIdle == raw = <<>> /\ date_signed = None

\* clean_header_area, lines 150-151
CleanInit(lines) ==
  /\ raw_lines = lines
  /\ i = 0
  /\ header = <<>>
  /\ narr_start = -1
  /\ narrative = None

\* extract_labels before its loop, line 324
LabelsIdle == labels_out = <<>> /\ scan = 0

\* clean_header_area was not called before
CallsIdle == calls = 0 /\ prev = None

\* find_act_blocks before line 81
FindIdle ==
  /\ doc = <<>>
  /\ part2 = 0
  /\ signed_indices = <<>>
  /\ acts = <<>>
  /\ idx = 0

\* main before its loop over acts
MainIdle == doc_headers = <<>> /\ act_no = 0

\* download_pdf before its loop
DownloadIdle ==
  /\ attempt = 0
  /\ log = <<>>
  /\ resp = <<>>
  /\ dest_file = <<>>
  /\ dl_result = "None"

\* handler before it is invoked
HandlerIdle ==
  /\ event = None
  /\ boto3 = "module"
  /\ payload = None
  /\ response = None
  /\ effects = <<>>

\* extract_pdf before it is called
OcrIdle ==
  /\ pdf = <<>>
  /\ max_workers = 0
  /\ futures = <<>>
  /\ results = <<>>
  /\ pages_text = <<>>
  /\ completed = 0
  /\ written = <<>>

\* main of download_blocked_pdfs.py before it is called
BatchIdle ==
  /\ rows = <<>>
  /\ total = 0
  /\ cache = {}
  /\ dry_run = FALSE
  /\ scanned = 0
  /\ to_process = <<>>
  /\ skipped = 0
  /\ row_no = 0
  /\ success = 0
  /\ failed = 0
  /\ failed_urls = <<>>
  /\ fetched = <<>>
  /\ summary = <<>>

RestIdle == OcrIdle /\ BatchIdle

OtherIdle == DownloadIdle /\ HandlerIdle /\ RestIdle

Idle == LabelsIdle /\ CallsIdle /\ FindIdle /\ MainIdle /\ OtherIdle

\* parse_header on the header lines of an act
Init == pc = "parse_header" /\ HeaderInit /\ DateIdle /\ CleanInit(<<>>) /\ Idle

\* parse_date_signed on the text of a signing line
InitDate ==
  /\ pc = "parse_date_signed"
  /\ raw \in DateInputs
  /\ date_signed = None
  /\ HeaderInit
  /\ CleanInit(<<>>)
  /\ Idle

\* clean_header_area and extract_narrative on the raw body of an act
InitClean ==
  /\ pc = "clean_header_area"
  /\ \E lines \in RawBlocks : CleanInit(lines)
  /\ HeaderInit
  /\ DateIdle
  /\ Idle

\* extract_labels on the narrative of an act
InitLabels ==
  /\ pc = "extract_labels"
  /\ narrative \in NarrativeInputs
  /\ raw_lines = <<>>
  /\ i = 0
  /\ header = <<>>
  /\ narr_start = -1
  /\ HeaderInit
  /\ DateIdle
  /\ Idle
  /\ OtherIdle

\* main at line 364, before the first act: parse_header is entered for acts[0]
InitActs ==
  /\ pc = "parse_header"
  /\ doc_headers \in ActDocuments
  /\ act_no = 1
  /\ HeaderInit
  /\ DateIdle
  /\ CleanInit(<<>>)
  /\ LabelsIdle
  /\ CallsIdle
  /\ FindIdle
  /\ OtherIdle

\* download_pdf(url, dest), dest being the empty temporary file of main or a file
\* that holds something
InitDownload ==
  /\ pc = "download_pdf"
  /\ attempt = 0
  /\ log = <<>>
  /\ resp = <<>>
  /\ dest_file \in {<<>>, <<"c2">>}
  /\ dl_result = "None"
  /\ HandlerIdle
  /\ RestIdle
  /\ HeaderInit
  /\ DateIdle
  /\ CleanInit(<<>>)
  /\ LabelsIdle
  /\ CallsIdle
  /\ FindIdle
  /\ MainIdle

\* handler(event, context): boto3 was imported or the import failed (lines 34-37)
InitHandler ==
  /\ pc = "handler"
  /\ event \in Events
  /\ boto3 \in {"module", "None"}
  /\ payload = None
  /\ response = None
  /\ effects = <<>>
  /\ DownloadIdle
  /\ RestIdle
  /\ HeaderInit
  /\ DateIdle
  /\ CleanInit(<<>>)
  /\ LabelsIdle
  /\ CallsIdle
  /\ FindIdle
  /\ MainIdle

\* clean_header_area on a raw body of SpecAhead
InitAhead ==
  /\ pc = "clean_header_area"
  /\ \E lines \in AheadBlocks : CleanInit(lines)
  /\ HeaderInit
  /\ DateIdle
  /\ Idle

\* clean_header_area on a raw body of SpecNumbers
InitNumbers ==
  /\ pc = "clean_header_area"
  /\ \E lines \in NumberBlocks : CleanInit(lines)
  /\ HeaderInit
  /\ DateIdle
  /\ Idle

\* find_act_blocks on the lines of a document, line 81
InitFind ==
  /\ pc = "find_part2"
  /\ doc \in Documents
  /\ part2 = 0
  /\ signed_indices = <<>>
  /\ acts = <<>>
  /\ idx = 0
  /\ HeaderInit
  /\ DateIdle
  /\ CleanInit(<<>>)
  /\ LabelsIdle
  /\ CallsIdle
  /\ MainIdle
  /\ OtherIdle

\* ------------------------------------------------------------------------
\* parse_header and the labels of main
\* ------------------------------------------------------------------------
\* one iteration of "for line in header_lines" (lines 221-303); a ValueError
\* of float() leaves parse_header, and main, by the exception
Iterate(l) ==
  /\ pc = "parse_header"
  /\ n < MaxLines
  /\ LET r == LoopBody(Locals, l)
     IN  /\ section' = r.section
         /\ last_q' = r.last_q
         /\ pending_qs' = r.pending_qs
         /\ deferred_std_qs' = r.deferred_std_qs
         /\ standard' = r.standard
         /\ retroactive' = r.retroactive
         /\ present_value' = r.present_value
         /\ pc' = IF r.raised THEN "raised" ELSE "parse_header"
  /\ header_line' = l
  /\ n' = n + 1
  /\ UNCHANGED <<all_labels, dvars, cvars, xvars>>

\* line 305: header_lines is exhausted and the three lists are returned
Return ==
  /\ pc = "parse_header"
  /\ pc' = "returned"
  /\ UNCHANGED <<hvars, dvars, cvars, xvars>>

\* lines 383-391 of main, for the labels extract_labels found in the narrative
Labels(labels) ==
  /\ pc = "returned"
  /\ all_labels' = all_labels \o ActLabels(ActName, labels, standard, retroactive)
  /\ pc' = "done"
  /\ UNCHANGED <<n, header_line, section, last_q, pending_qs, deferred_std_qs,
                 standard, retroactive, present_value, dvars, cvars, xvars>>

\* ------------------------------------------------------------------------
\* parse_date_signed
\* ------------------------------------------------------------------------
ParseDate ==
  /\ pc = "parse_date_signed"
  /\ date_signed' = parse_date_signed(raw)
  /\ pc' = "done"
  /\ UNCHANGED <<raw, hvars, cvars, xvars>>

\* ------------------------------------------------------------------------
\* clean_header_area, one iteration of "while i < len(raw_lines)" per action,
\* and extract_narrative
\* ------------------------------------------------------------------------
\* line 154
CurrentLine == strip(raw_lines[i + 1])

InLoop == pc = "clean_header_area" /\ i < Len(raw_lines)

\* lines 156-169: a blank line, a page number or a footnote marker
CleanSkip ==
  /\ InLoop
  /\ CurrentLine = <<>> \/ PageNumber(CurrentLine) \/ FootnoteMarker(CurrentLine)
  /\ i' = i + 1
  /\ UNCHANGED <<pc, raw_lines, header, narr_start, narrative, hvars, dvars, xvars>>

Kept == CurrentLine # <<>> /\ ~PageNumber(CurrentLine) /\ ~FootnoteMarker(CurrentLine)

\* lines 171-175
CleanStructural ==
  /\ InLoop
  /\ Kept
  /\ is_structural(CurrentLine)
  /\ header' = Append(header, CurrentLine)
  /\ i' = i + 1
  /\ UNCHANGED <<pc, raw_lines, narr_start, narrative, hvars, dvars, xvars>>

\* lines 177-200: text with structural lines ahead is a footnote
CleanFootnote ==
  /\ InLoop
  /\ Kept
  /\ ~is_structural(CurrentLine)
  /\ has_future(raw_lines, i)
  /\ i' = i + 1
  /\ UNCHANGED <<pc, raw_lines, header, narr_start, narrative, hvars, dvars, xvars>>

\* lines 201-203: return header, i
CleanNarrativeStart ==
  /\ InLoop
  /\ Kept
  /\ ~is_structural(CurrentLine)
  /\ ~has_future(raw_lines, i)
  /\ narr_start' = i
  /\ pc' = "extract_narrative"
  /\ UNCHANGED <<raw_lines, i, header, narrative, hvars, dvars, xvars>>

\* line 205: return header, len(raw_lines)
CleanEnd ==
  /\ pc = "clean_header_area"
  /\ i >= Len(raw_lines)
  /\ narr_start' = Len(raw_lines)
  /\ pc' = "extract_narrative"
  /\ UNCHANGED <<raw_lines, i, header, narrative, hvars, dvars, xvars>>

\* line 367 of main: narrative = extract_narrative(act["raw_lines"], narr_start)
ExtractNarrative ==
  /\ pc = "extract_narrative"
  /\ narrative' = extract_narrative(raw_lines, narr_start)
  /\ pc' = "done"
  /\ UNCHANGED <<raw_lines, i, header, narr_start, hvars, dvars, xvars>>

\* ------------------------------------------------------------------------
\* extract_labels, one match of re.finditer per action
\* ------------------------------------------------------------------------
\* the match the loop of line 325 is at
NextQuote == RE_QUOTE(narrative, scan)

\* lines 327-328: a quote shorter than 15 characters is passed over
LabelSkip ==
  /\ pc = "extract_labels"
  /\ NextQuote.ok
  /\ ~Retained(NextQuote)
  /\ scan' = NextQuote.end
  /\ UNCHANGED <<pc, labels_out, hvars, dvars, cvars, ivars, fvars, mvars, ovars>>

\* lines 329-342
LabelAppend ==
  /\ pc = "extract_labels"
  /\ NextQuote.ok
  /\ Retained(NextQuote)
  /\ labels_out' = Append(labels_out, LabelOf(narrative, NextQuote))
  /\ scan' = NextQuote.end
  /\ UNCHANGED <<pc, hvars, dvars, cvars, ivars, fvars, mvars, ovars>>

\* line 343
LabelsReturn ==
  /\ pc = "extract_labels"
  /\ ~NextQuote.ok
  /\ pc' = "done"
  /\ UNCHANGED <<hvars, dvars, cvars, xvars>>

\* ------------------------------------------------------------------------
\* clean_header_area called a second time on the same raw block
\* ------------------------------------------------------------------------
\* the header list of a call that kept the list of the call before it
FreshHeader_Stale == header

\* line 150: header = [], a local of each call
FreshHeader == <<>>

\* the first call has returned (header, narr_start); the second call starts with
\* the locals of lines 150-151 on the raw_lines the first call was given
CallAgain ==
  /\ pc = "extract_narrative"
  /\ calls = 0
  /\ prev' = <<header, narr_start>>
  /\ calls' = 1
  /\ header' = FreshHeader
  /\ i' = 0
  /\ narr_start' = -1
  /\ pc' = "clean_header_area"
  /\ UNCHANGED <<raw_lines, narrative, hvars, dvars, lvars, fvars, mvars, ovars>>

\* ------------------------------------------------------------------------
\* find_act_blocks
\* ------------------------------------------------------------------------
\* lines 83-87
FindPart2 ==
  /\ pc = "find_part2"
  /\ part2' = Part2(doc)
  /\ pc' = "find_signed"
  /\ UNCHANGED <<doc, signed_indices, acts, idx, hvars, dvars, cvars, lvars, ivars, mvars, ovars>>

\* lines 89-93
FindSigned ==
  /\ pc = "find_signed"
  /\ signed_indices' = SignedIndices(doc, part2)
  /\ pc' = "find_acts"
  /\ UNCHANGED <<doc, part2, acts, idx, hvars, dvars, cvars, lvars, ivars, mvars, ovars>>

\* lines 96-134: one iteration of "for idx, si in enumerate(signed_indices)"
FindAct ==
  /\ pc = "find_acts"
  /\ idx < Len(signed_indices)
  /\ acts' = Append(acts, ActOf(doc, signed_indices, idx))
  /\ idx' = idx + 1
  /\ UNCHANGED <<pc, doc, part2, signed_indices, hvars, dvars, cvars, lvars, ivars, mvars, ovars>>

\* line 136
FindReturn ==
  /\ pc = "find_acts"
  /\ idx = Len(signed_indices)
  /\ pc' = "done"
  /\ UNCHANGED <<hvars, dvars, cvars, xvars>>

\* ------------------------------------------------------------------------
\* main (lines 364-391): for act in acts
\* ------------------------------------------------------------------------
\* the locals of parse_header kept from the call for the act before
FreshLocals_Stale ==
  [section |-> section, last_q |-> last_q, pending_qs |-> pending_qs,
   deferred_std_qs |-> deferred_std_qs, standard |-> <<>>, retroactive |-> <<>>,
   present_value |-> <<>>, raised |-> FALSE]

\* lines 212-219: each call of parse_header makes its locals anew
FreshLocals ==
  [section |-> "None", last_q |-> None, pending_qs |-> <<>>,
   deferred_std_qs |-> <<>>, standard |-> <<>>, retroactive |-> <<>>,
   present_value |-> <<>>, raised |-> FALSE]

\* line 221 within main: the next line of the header_lines of the act
ActIterate ==
  /\ act_no \in 1..Len(doc_headers)
  /\ n < Len(doc_headers[act_no])
  /\ Iterate(doc_headers[act_no][n + 1])

\* line 305 within main: the header_lines of the act are used up
ActReturn ==
  /\ act_no \in 1..Len(doc_headers)
  /\ n = Len(doc_headers[act_no])
  /\ Return

\* lines 383-391 within main
ActLabelsOut ==
  /\ act_no \in 1..Len(doc_headers)
  /\ \E labels \in ActLabelLists : Labels(labels)

\* line 364: the next act; line 366 enters parse_header again
NextAct ==
  /\ pc = "done"
  /\ act_no \in 1..(Len(doc_headers) - 1)
  /\ act_no' = act_no + 1
  /\ n' = 0
  /\ header_line' = <<>>
  /\ section' = FreshLocals.section
  /\ last_q' = FreshLocals.last_q
  /\ pending_qs' = FreshLocals.pending_qs
  /\ deferred_std_qs' = FreshLocals.deferred_std_qs
  /\ standard' = FreshLocals.standard
  /\ retroactive' = FreshLocals.retroactive
  /\ present_value' = FreshLocals.present_value
  /\ pc' = "parse_header"
  /\ UNCHANGED <<all_labels, doc_headers, dvars, cvars, lvars, ivars, fvars, ovars>>

\* ------------------------------------------------------------------------
\* download_pdf
\* ------------------------------------------------------------------------
\* what no action of download_pdf changes
DownloadFrame == UNCHANGED <<hvars, dvars, cvars, lvars, ivars, fvars, mvars, avars, pvars, bvars>>

\* lines 65-69: the next attempt; the request succeeds and dest is opened for
\* writing, which empties it
DownloadOpen ==
  /\ pc = "download_pdf"
  /\ attempt < MAX_RETRIES
  /\ attempt' = attempt + 1
  /\ log' = Append(log, Requested)
  /\ resp' \in Bodies
  /\ dest_file' = <<>>
  /\ pc' = "iter_content"
  /\ UNCHANGED dl_result
  /\ DownloadFrame

\* lines 65-68 and 73-78: the next attempt; requests.get or raise_for_status
\* raises a RequestException
DownloadRequestError ==
  /\ pc = "download_pdf"
  /\ attempt < MAX_RETRIES
  /\ attempt' = attempt + 1
  /\ log' = RequestFailed(Append(log, Requested), attempt + 1)
  /\ UNCHANGED <<pc, resp, dest_file, dl_result>>
  /\ DownloadFrame

\* lines 65-69: the next attempt; open(dest, "wb") raises an OSError, which is no
\* RequestException and leaves download_pdf
DownloadOpenError ==
  /\ pc = "download_pdf"
  /\ attempt < MAX_RETRIES
  /\ attempt' = attempt + 1
  /\ log' = Append(log, Requested)
  /\ pc' = "raised"
  /\ UNCHANGED <<resp, dest_file, dl_result>>
  /\ DownloadFrame

\* lines 70-71: one chunk is written
DownloadChunk ==
  /\ pc = "iter_content"
  /\ resp # <<>>
  /\ dest_file' = Append(dest_file, Head(resp))
  /\ resp' = Tail(resp)
  /\ UNCHANGED <<pc, attempt, log, dl_result>>
  /\ DownloadFrame

\* lines 70 and 73-78: the connection breaks before the body is complete and
\* iter_content raises a RequestException
DownloadBroken ==
  /\ pc = "iter_content"
  /\ resp # <<>>
  /\ resp' = <<>>
  /\ log' = RequestFailed(log, attempt)
  /\ pc' = "download_pdf"
  /\ UNCHANGED <<attempt, dest_file, dl_result>>
  /\ DownloadFrame

\* line 72
DownloadReturnTrue ==
  /\ pc = "iter_content"
  /\ resp = <<>>
  /\ dl_result' = "True"
  /\ pc' = "done"
  /\ UNCHANGED <<attempt, log, resp, dest_file>>
  /\ DownloadFrame

\* line 79: the loop is used up
DownloadReturnFalse ==
  /\ pc = "download_pdf"
  /\ attempt = MAX_RETRIES
  /\ dl_result' = "False"
  /\ pc' = "done"
  /\ UNCHANGED <<attempt, log, resp, dest_file>>
  /\ DownloadFrame

\* ------------------------------------------------------------------------
\* handler
\* ------------------------------------------------------------------------
\* what no action of handler changes
HandlerFrame == UNCHANGED <<hvars, dvars, cvars, lvars, ivars, fvars, mvars, nvars, pvars, bvars>>

\* line 278
Missing == ~Truthy(event.pdf_url) \/ ~Truthy(event.output_key)

\* lines 278-284
HandlerMissing ==
  /\ pc = "handler"
  /\ Missing
  /\ response' = [statusCode |-> 400, body |-> [error |-> MissingParameters]]
  /\ pc' = "done"
  /\ UNCHANGED <<event, boto3, payload, effects>>
  /\ HandlerFrame

\* lines 287-314: urlretrieve and Docling succeed
HandlerExtracted ==
  /\ pc = "handler"
  /\ ~Missing
  /\ \E result \in DoclingResults :
        payload' = Extracted(InitialPayload(event.output_key), result)
  /\ effects' = effects \o <<"urlretrieve", "docling">>
  /\ pc' = "upload"
  /\ UNCHANGED <<event, boto3, response>>
  /\ HandlerFrame

\* lines 287-321: urlretrieve raises
HandlerDownloadFailed ==
  /\ pc = "handler"
  /\ ~Missing
  /\ \E message \in ExceptionMessages :
        payload' = ExtractionFailed(InitialPayload(event.output_key), message)
  /\ effects' = effects \o <<"urlretrieve">>
  /\ pc' = "upload"
  /\ UNCHANGED <<event, boto3, response>>
  /\ HandlerFrame

\* lines 287-321: _extract_pages_with_docling raises
HandlerDoclingFailed ==
  /\ pc = "handler"
  /\ ~Missing
  /\ \E message \in ExceptionMessages :
        payload' = ExtractionFailed(InitialPayload(event.output_key), message)
  /\ effects' = effects \o <<"urlretrieve", "docling">>
  /\ pc' = "upload"
  /\ UNCHANGED <<event, boto3, response>>
  /\ HandlerFrame

\* lines 324-343: put_object succeeds
HandlerUploaded ==
  /\ pc = "upload"
  /\ boto3 = "module"
  /\ effects' = Append(effects, "put_object")
  /\ response' = Response(payload)
  /\ pc' = "done"
  /\ UNCHANGED <<event, boto3, payload>>
  /\ HandlerFrame

\* lines 324-343: boto3.client or put_object raises
HandlerUploadFailed ==
  /\ pc = "upload"
  /\ boto3 = "module"
  /\ effects' = Append(effects, "put_object")
  /\ \E message \in ExceptionMessages :
        payload' = [payload EXCEPT !.error = UploadError(payload.error, message)]
  /\ response' = Response(payload')
  /\ pc' = "done"
  /\ UNCHANGED <<event, boto3>>
  /\ HandlerFrame

\* lines 324 and 340-343: without boto3 nothing is uploaded
HandlerNoUpload ==
  /\ pc = "upload"
  /\ boto3 = "None"
  /\ response' = Response(payload)
  /\ pc' = "done"
  /\ UNCHANGED <<event, boto3, payload, effects>>
  /\ HandlerFrame

\* ------------------------------------------------------------------------
\* extract_pdf, the OCR path (lines 119-140)
\* ------------------------------------------------------------------------
\* lines 124-127, for a document of the given pages
InitOcr ==
  /\ pc = "ocr_submit"
  /\ pdf \in ScannedDocuments
  /\ max_workers \in 1..MaxWorkers
  /\ futures = [k \in 1..Len(pdf) |-> "unsubmitted"]
  /\ results = [k \in 1..Len(pdf) |-> NoResult]
  /\ pages_text = [k \in 1..Len(pdf) |-> <<>>]
  /\ completed = 0
  /\ written = <<>>
  /\ BatchIdle
  /\ DownloadIdle
  /\ HandlerIdle
  /\ HeaderInit
  /\ DateIdle
  /\ CleanInit(<<>>)
  /\ LabelsIdle
  /\ CallsIdle
  /\ FindIdle
  /\ MainIdle

OcrFrame == UNCHANGED <<hvars, dvars, cvars, lvars, ivars, fvars, mvars, nvars, avars, bvars>>

InPool == pc \in {"ocr_submit", "ocr_collect"}

WithState(st) == {k \in 1..Len(futures) : futures[k] = st}

\* lines 129-130: executor.submit for the next element of args_list
OcrSubmit ==
  /\ pc = "ocr_submit"
  /\ WithState("unsubmitted") # {}
  /\ futures' = [futures EXCEPT ![Min(WithState("unsubmitted"))] = "pending"]
  /\ UNCHANGED <<pc, pdf, max_workers, results, pages_text, completed, written>>
  /\ OcrFrame

\* line 132: the dict of futures is built and as_completed is entered
OcrSubmitted ==
  /\ pc = "ocr_submit"
  /\ WithState("unsubmitted") = {}
  /\ pc' = "ocr_collect"
  /\ UNCHANGED pvars
  /\ OcrFrame

\* a thread of the pool, of which there are at most max_workers, takes the oldest
\* work item
OcrWorkerStart ==
  /\ InPool
  /\ WithState("pending") # {}
  /\ Cardinality(WithState("running")) < max_workers
  /\ futures' = [futures EXCEPT ![Min(WithState("pending"))] = "running"]
  /\ UNCHANGED <<pc, pdf, max_workers, results, pages_text, completed, written>>
  /\ OcrFrame

\* lines 74-87 in a thread of the pool: the future of the page is done
OcrWorkerFinish ==
  /\ InPool
  /\ \E k \in WithState("running") :
        /\ futures' = [futures EXCEPT ![k] = "done"]
        /\ results' = [results EXCEPT ![k] = extract_page_with_ocr(pdf[k], k - 1)]
  /\ UNCHANGED <<pc, pdf, max_workers, pages_text, completed, written>>
  /\ OcrFrame

\* lines 132-135: as_completed yields a future that is done, in no fixed order
\* among those that are
OcrCollect ==
  /\ pc = "ocr_collect"
  /\ \E k \in WithState("done") :
        /\ ~results[k].raised
        /\ futures' = [futures EXCEPT ![k] = "yielded"]
        /\ pages_text' = [pages_text EXCEPT ![results[k].page_num + 1] = results[k].text]
        /\ written' = Append(written, results[k].page_num)
  /\ completed' = completed + 1
  /\ UNCHANGED <<pc, pdf, max_workers, results>>
  /\ OcrFrame

\* line 133: future.result() raises what the call in the thread raised
OcrRaise ==
  /\ pc = "ocr_collect"
  /\ \E k \in WithState("done") :
        /\ results[k].raised
        /\ futures' = [futures EXCEPT ![k] = "yielded"]
  /\ pc' = "raised"
  /\ UNCHANGED <<pdf, max_workers, results, pages_text, completed, written>>
  /\ OcrFrame

\* lines 149-160: every future was yielded; "pages" is pages_text
OcrReturn ==
  /\ pc = "ocr_collect"
  /\ WithState("yielded") = 1..Len(futures)
  /\ pc' = "done"
  /\ UNCHANGED pvars
  /\ OcrFrame

\* ------------------------------------------------------------------------
\* main of download_blocked_pdfs.py (lines 161-247)
\* ------------------------------------------------------------------------
\* lines 161-167 and 191-193, for the rows read at line 148
InitBatch ==
  /\ pc = "filter"
  /\ rows \in CsvFiles
  /\ total = Len(rows)
  /\ cache \in SUBSET CacheFiles
  /\ dry_run \in BOOLEAN
  /\ scanned = 0
  /\ to_process = <<>>
  /\ skipped = 0
  /\ row_no = 0
  /\ success = 0
  /\ failed = 0
  /\ failed_urls = <<>>
  /\ fetched = <<>>
  /\ summary = <<>>
  /\ OcrIdle
  /\ DownloadIdle
  /\ HandlerIdle
  /\ HeaderInit
  /\ DateIdle
  /\ CleanInit(<<>>)
  /\ LabelsIdle
  /\ CallsIdle
  /\ FindIdle
  /\ MainIdle

BatchFrame == UNCHANGED <<hvars, dvars, cvars, lvars, ivars, fvars, mvars, nvars, avars, pvars>>

\* lines 168-173: one iteration of "for row in rows"
BatchFilterRow ==
  /\ pc = "filter"
  /\ scanned < Len(rows)
  /\ IF rows[scanned + 1].cache_file \in cache
       THEN skipped' = skipped + 1 /\ to_process' = to_process
       ELSE skipped' = skipped /\ to_process' = Append(to_process, rows[scanned + 1])
  /\ scanned' = scanned + 1
  /\ UNCHANGED <<pc, rows, total, cache, dry_run, row_no, success, failed, failed_urls,
                 fetched, summary>>
  /\ BatchFrame

Filtered == pc = "filter" /\ scanned = Len(rows)

AfterFilter ==
  /\ rows' = to_process
  /\ UNCHANGED <<total, cache, dry_run, scanned, to_process, skipped, row_no, success,
                 failed, failed_urls, fetched, summary>>
  /\ BatchFrame

\* lines 176-180: every row was cached
BatchNothingToDo ==
  /\ Filtered
  /\ to_process = <<>>
  /\ pc' = "done"
  /\ AfterFilter

\* lines 176 and 182-188
BatchDryRun ==
  /\ Filtered
  /\ to_process # <<>>
  /\ dry_run
  /\ pc' = "done"
  /\ AfterFilter

\* lines 176 and 191-193
BatchStart ==
  /\ Filtered
  /\ to_process # <<>>
  /\ ~dry_run
  /\ pc' = "process"
  /\ AfterFilter

InBatch == pc = "process" /\ row_no < Len(rows)

Row == rows[row_no + 1]

\* lines 209-213: download_pdf returned False
BatchDownloadFailed ==
  /\ InBatch
  /\ fetched' = Append(fetched, Called_download_pdf(Row))
  /\ failed' = failed + 1
  /\ failed_urls' = Append(failed_urls, Row.pdf_url)
  /\ row_no' = row_no + 1
  /\ UNCHANGED <<pc, rows, total, cache, dry_run, scanned, to_process, skipped, success,
                 summary>>
  /\ BatchFrame

\* lines 209 or 215: download_pdf or os.path.getsize raised
BatchDownloadRaises ==
  /\ InBatch
  /\ fetched' = Append(fetched, Called_download_pdf(Row))
  /\ pc' = "raised"
  /\ UNCHANGED <<rows, total, cache, dry_run, scanned, to_process, skipped, row_no,
                 success, failed, failed_urls, summary>>
  /\ BatchFrame

\* lines 219-223: extract_pdf returned False
BatchExtractFailed ==
  /\ InBatch
  /\ fetched' = fetched \o <<Called_download_pdf(Row), Called_extract_pdf(Row)>>
  /\ failed' = failed + 1
  /\ failed_urls' = Append(failed_urls, Row.pdf_url)
  /\ row_no' = row_no + 1
  /\ UNCHANGED <<pc, rows, total, cache, dry_run, scanned, to_process, skipped, success,
                 summary>>
  /\ BatchFrame

\* lines 226-227: the script wrote a file json.load does not accept
BatchVerifyRaises ==
  /\ InBatch
  /\ fetched' = fetched \o <<Called_download_pdf(Row), Called_extract_pdf(Row)>>
  /\ cache' = cache \cup {Row.cache_file}
  /\ pc' = "raised"
  /\ UNCHANGED <<rows, total, dry_run, scanned, to_process, skipped, row_no, success,
                 failed, failed_urls, summary>>
  /\ BatchFrame

\* lines 219-231: the cache file was written and read back
BatchSuccess ==
  /\ InBatch
  /\ fetched' = fetched \o <<Called_download_pdf(Row), Called_extract_pdf(Row)>>
  /\ cache' = cache \cup {Row.cache_file}
  /\ success' = success + 1
  /\ row_no' = row_no + 1
  /\ UNCHANGED <<pc, rows, total, dry_run, scanned, to_process, skipped, failed,
                 failed_urls, summary>>
  /\ BatchFrame

\* lines 239-242: the "Results:" line
BatchSummary ==
  /\ pc = "process"
  /\ row_no = Len(rows)
  /\ summary' = ResultsLine(total, Len(rows), success, failed)
  /\ pc' = "done"
  /\ UNCHANGED <<rows, total, cache, dry_run, scanned, to_process, skipped, row_no,
                 success, failed, failed_urls, fetched>>
  /\ BatchFrame

\* ------------------------------------------------------------------------
\* Specifications
\* ------------------------------------------------------------------------
Next ==
  \/ \E l \in HeaderLines : Iterate(l)
  \/ Return

Spec == Init /\ [][Next]_vars

NextMain ==
  \/ \E l \in ActHeaderLines : n < MaxActLines /\ Iterate(l)
  \/ Return
  \/ \E labels \in LabelLists : Labels(labels)

SpecMain == Init /\ [][NextMain]_vars

NextQueues ==
  \/ \E l \in QueueLines : n < MaxQueue /\ Iterate(l)
  \/ Return

SpecQueues == Init /\ [][NextQueues]_vars

NextDate == ParseDate

SpecDate == InitDate /\ [][NextDate]_vars

NextClean ==
  \/ CleanSkip
  \/ CleanStructural
  \/ CleanFootnote
  \/ CleanNarrativeStart
  \/ CleanEnd
  \/ ExtractNarrative

SpecClean == InitClean /\ [][NextClean]_vars

SpecAhead == InitAhead /\ [][NextClean]_vars

SpecNumbers == InitNumbers /\ [][NextClean]_vars

NextLabels ==
  \/ LabelSkip
  \/ LabelAppend
  \/ LabelsReturn

SpecLabels == InitLabels /\ [][NextLabels]_vars

NextTwice ==
  \/ CleanSkip
  \/ CleanStructural
  \/ CleanFootnote
  \/ CleanNarrativeStart
  \/ CleanEnd
  \/ CallAgain

SpecTwice == InitClean /\ [][NextTwice]_vars

NextFind ==
  \/ FindPart2
  \/ FindSigned
  \/ FindAct
  \/ FindReturn

SpecFind == InitFind /\ [][NextFind]_vars

NextActs ==
  \/ ActIterate
  \/ ActReturn
  \/ ActLabelsOut
  \/ NextAct

SpecActs == InitActs /\ [][NextActs]_vars

NextDownload ==
  \/ DownloadOpen
  \/ DownloadRequestError
  \/ DownloadOpenError
  \/ DownloadChunk
  \/ DownloadBroken
  \/ DownloadReturnTrue
  \/ DownloadReturnFalse

\* requests.get returns or raises within its timeout, and a response body ends:
\* a step of download_pdf that can be taken is taken
SpecDownload == InitDownload /\ [][NextDownload]_vars /\ WF_vars(NextDownload)

NextHandler ==
  \/ HandlerMissing
  \/ HandlerExtracted
  \/ HandlerDownloadFailed
  \/ HandlerDoclingFailed
  \/ HandlerUploaded
  \/ HandlerUploadFailed
  \/ HandlerNoUpload

SpecHandler == InitHandler /\ [][NextHandler]_vars


NextOcr ==
  \/ OcrSubmit
  \/ OcrSubmitted
  \/ OcrWorkerStart
  \/ OcrWorkerFinish
  \/ OcrCollect
  \/ OcrRaise
  \/ OcrReturn

\* the calls of a pool thread return or raise, and the main thread is scheduled:
\* a step of extract_pdf that can be taken is taken
SpecOcr == InitOcr /\ [][NextOcr]_vars /\ WF_vars(NextOcr)


NextBatch ==
  \/ BatchFilterRow
  \/ BatchNothingToDo
  \/ BatchDryRun
  \/ BatchStart
  \/ BatchDownloadFailed
  \/ BatchDownloadRaises
  \/ BatchExtractFailed
  \/ BatchVerifyRaises
  \/ BatchSuccess
  \/ BatchSummary

SpecBatch == InitBatch /\ [][NextBatch]_vars

\* ------------------------------------------------------------------------
\* Properties
\* ------------------------------------------------------------------------
\* "2009-01"
Q_2009_01 ==
  <<"2","0","0","9","-","0","1">>

\* "2010-01"
Q_2010_01 ==
  <<"2","0","1","0","-","0","1">>

\* "2010-02"
Q_2010_02 ==
  <<"2","0","1","0","-","0","2">>

\* the amounts -12.3 and +4.0
Minus12_3 == [neg |-> TRUE, milli |-> 12300]

Plus4 == [neg |-> FALSE, milli |-> 4000]

\* the locals of parse_header before its first iteration
Blank ==
  [section |-> "None", last_q |-> None, pending_qs |-> <<>>,
   deferred_std_qs |-> <<>>, standard |-> <<>>, retroactive |-> <<>>,
   present_value |-> <<>>, raised |-> FALSE]

\* what the regexes of lines 253-255 find in the content of each input line (the
\* text after "Present Value:" on such a line): cont, the iteration ends at the
\* section detection; amount_only, RE_AMOUNT matches a decimal number and RE_QUARTER
\* does not match; g1, the sign glyph RE_AMOUNT captured
Tokens ==
  {LET d == SectionDetection(Blank, l)
       a == RE_AMOUNT(d.line)
   IN  [line        |-> l,
        cont        |-> d.cont,
        amount_only |-> /\ ~d.cont
                        /\ a.ok
                        /\ ~RE_QUARTER(d.line).ok
                        /\ FloatOk(Remove(a.g2, ",")),
        g1          |-> IF ~d.cont /\ a.ok THEN a.g1 ELSE <<>>]
     : l \in HeaderLines \cup ActHeaderLines}

Token(l) == CHOOSE t \in Tokens : t.line = l

\* an Entry without category
Plain(qs, val) == [quarter |-> qs, amount |-> val, category |-> None, exogeneity |-> None]

\* every Entry of the three lists
AllEntries == standard \o retroactive \o present_value

\* C1, as the spec states it: with no section-header line, "2009Q1" followed by
\* "-$12.3 billion" yields exactly one Entry {2009-01, -12.3}, in the standard list.
C1_DefaultStandard ==
  [][(n = 1 /\ header_line = L_2009Q1 /\ section = "None" /\ header_line' = L_Minus12_3)
       => /\ standard' = <<Plain(Q_2009_01, Minus12_3)>>
          /\ retroactive' = <<>>
          /\ present_value' = <<>>]_vars

\* C1, amended: "2009Q1" followed by "-$12.3 billion" yields no Entry while no section
\* header has been seen (the section is never defaulted); after a section header, with
\* no quarter queued before "2009Q1", the two lines yield exactly one Entry
\* {2009-01, -12.3, no category}, appended to the list of that header's section.
C1_ScenarioA ==
  [][(header_line = L_2009Q1 /\ header_line' = L_Minus12_3)
       => /\ section = "None"
               => (standard' = <<>> /\ retroactive' = <<>> /\ present_value' = <<>>)
          /\ (section # "None" /\ pending_qs = <<Q_2009_01>> /\ deferred_std_qs = <<>>)
               => /\ standard' = IF section = "std"
                                   THEN Append(standard, Plain(Q_2009_01, Minus12_3))
                                   ELSE standard
                  /\ retroactive' = IF section = "retro"
                                      THEN Append(retroactive, Plain(Q_2009_01, Minus12_3))
                                      ELSE retroactive
                  /\ present_value' = IF section = "pv"
                                        THEN Append(present_value, Plain(Q_2009_01, Minus12_3))
                                        ELSE present_value]_vars

\* two lines were consumed, the second "-$12.3 billion", no header was seen, and
\* parse_header returned three empty lists
C1_Witness ==
  /\ pc = "returned"
  /\ n = 2
  /\ header_line = L_Minus12_3
  /\ section = "None"
  /\ AllEntries = <<>>

\* ^\d{4}-0[1-4]$
QuarterString(q) ==
  /\ Len(q) = 7
  /\ \A k \in 1..4 : q[k] \in Digit
  /\ q[5] = "-"
  /\ q[6] = "0"
  /\ q[7] \in {"1", "2", "3", "4"}

\* C2: every Entry of the three lists has a quarter matching ^\d{4}-0[1-4]$, never an
\* absent one, also when the quarter is the last_q fallback of an amount-only line.
C2_QuarterFormat ==
  \A k \in 1..Len(AllEntries) : QuarterString(AllEntries[k].quarter)

\* the text before the first "-" of an ISO date
YearText(d) == SubSeq(d, 1, Min({k \in 1..Len(d) : d[k] = "-"}) - 1)

\* C3, as the spec states it: a two-digit year yy gives 1900+yy when yy < 45 and
\* 2000+yy otherwise; a four-digit year passes through unchanged.
C3_PivotBelow45 ==
  (pc = "done" /\ RE_MDY(raw).ok)
    => LET y == RE_MDY(raw).g3
       IN  /\ Len(y) = 2 => YearText(date_signed) =
                              str(IF int(y) < 45 THEN 1900 + int(y) ELSE 2000 + int(y))
           /\ Len(y) = 4 => YearText(date_signed) = y

\* C3, amended: with the year digits of the leftmost M/D/Y match (two to four, as many
\* as there are), a two-digit year yy gives 1900+yy when yy >= 45 and 2000+yy when
\* yy < 45; a three- or four-digit year is written as its integer value, so a
\* four-digit year that does not start with 0 passes through unchanged.
C3_TwoDigitYear ==
  (pc = "done" /\ RE_MDY(raw).ok)
    => LET y == RE_MDY(raw).g3
       IN  /\ Len(y) = 2 => YearText(date_signed) =
                              str(IF int(y) >= 45 THEN 1900 + int(y) ELSE 2000 + int(y))
           /\ Len(y) > 2 => YearText(date_signed) = str(int(y))
           /\ (Len(y) = 4 /\ y[1] # "0") => YearText(date_signed) = y

\* "12/31/45" was parsed to "1945-12-31"
C3_Witness ==
  /\ pc = "done"
  /\ raw = <<"1","2","/","3","1","/","4","5">>
  /\ date_signed = <<"1","9","4","5","-","1","2","-","3","1">>

\* C4: the parse never raises; a line whose amount token is no valid decimal number
\* does not abort parse_header.
C4_NeverRaises == pc # "raised"

\* C5, as the spec states it: from section standard with pending_qs
\* ["2010-01","2010-02"], "Present Value: +$4.0 billion" leaves both quarters in
\* _deferred_std_qs with the section present_value, and the next "+$4.0 billion" line
\* is emitted as the standard Entry of "2010-01".
C5_NextLineGets2010Q1 ==
  [][/\ (section = "std" /\ pending_qs = <<Q_2010_01, Q_2010_02>>
           /\ n' = n + 1 /\ header_line' = L_PVAmount)
          => (section' = "pv" /\ deferred_std_qs' = <<Q_2010_01, Q_2010_02>>)
     /\ (header_line = L_PVAmount /\ deferred_std_qs = <<Q_2010_01, Q_2010_02>>
           /\ header_line' = L_Plus4)
          => (standard' = Append(standard, Plain(Q_2010_01, Plus4))
                /\ present_value' = present_value)]_vars

\* C5, amended: from section standard with pending_qs ["2010-01","2010-02"],
\* "Present Value: +$4.0 billion" switches the section to present_value with
\* pending_qs empty and reprocesses the trailing "+$4.0 billion" as an amount-only
\* content line, which takes the oldest deferred quarter: it is emitted as the standard
\* Entry of "2010-01" and _deferred_std_qs is left as ["2010-02"]; the next
\* "+$4.0 billion" line is emitted as the standard Entry of "2010-02", and
\* neither goes into present_value.
C5_ScenarioB ==
  [][/\ (section = "std" /\ pending_qs = <<Q_2010_01, Q_2010_02>>
           /\ n' = n + 1 /\ header_line' = L_PVAmount)
          => /\ section' = "pv"
             /\ pending_qs' = <<>>
             /\ deferred_std_qs' = <<Q_2010_02>>
             /\ standard' = Append(standard, Plain(Q_2010_01, Plus4))
             /\ present_value' = present_value
     /\ (header_line = L_PVAmount /\ section = "pv" /\ deferred_std_qs = <<Q_2010_02>>
           /\ header_line' = L_Plus4)
          => /\ standard' = Append(standard, Plain(Q_2010_02, Plus4))
             /\ deferred_std_qs' = <<>>
             /\ present_value' = present_value]_vars

\* the header, the two quarters, the "Present Value:" line and one more amount line
\* were consumed: both amounts are standard Entries and present_value is empty
C5_Witness ==
  /\ n = 5
  /\ header_line = L_Plus4
  /\ section = "pv"
  /\ standard = <<Plain(Q_2010_01, Plus4), Plain(Q_2010_02, Plus4)>>
  /\ present_value = <<>>
  /\ deferred_std_qs = <<>>

\* lst2 is lst1 with one Entry of quarter qs appended
Appended(lst1, lst2, qs) ==
  /\ Len(lst2) = Len(lst1) + 1
  /\ SubSeq(lst2, 1, Len(lst1)) = lst1
  /\ lst2[Len(lst2)].quarter = qs

\* C6: an amount-only content line (its number a decimal number) processed while a
\* section is set takes its quarter (a) from the head of _deferred_std_qs when that is
\* non-empty, the Entry going to the standard list whatever the section and
\* pending_qs staying as it is; (b) else from the head of pending_qs, (c) else from
\* last_q, the Entry going to the list of the current section; the trailing text of a
\* "Present Value:" line counts as a content line of the state the header leaves.
C6_QuarterPriority ==
  [][\A m \in {SectionDetection(Locals, header_line').st} :
     LET qs == IF m.deferred_std_qs # <<>> THEN Head(m.deferred_std_qs)
               ELSE IF m.pending_qs # <<>> THEN Head(m.pending_qs)
               ELSE m.last_q
         to == IF m.deferred_std_qs # <<>> THEN "std" ELSE m.section
     IN  (/\ n' = n + 1
          /\ Token(header_line').amount_only
          /\ m.section # "None")
           => /\ deferred_std_qs' = IF m.deferred_std_qs # <<>>
                                      THEN Tail(m.deferred_std_qs) ELSE <<>>
              /\ pending_qs' = IF m.deferred_std_qs = <<>> /\ m.pending_qs # <<>>
                                 THEN Tail(m.pending_qs) ELSE m.pending_qs
              /\ IF to = "std" THEN Appended(standard, standard', qs)
                               ELSE standard' = standard
              /\ IF to = "retro" THEN Appended(retroactive, retroactive', qs)
                                 ELSE retroactive' = retroactive
              /\ IF to = "pv" THEN Appended(present_value, present_value', qs)
                              ELSE present_value' = present_value]_vars

\* in section present_value with "2010-02" pending, an amount took the deferred
\* "2010-01" into the standard list and left pending_qs alone
C6_Witness ==
  /\ n = 5
  /\ header_line = L_Plus4
  /\ section = "pv"
  /\ pending_qs = <<Q_2010_02>>
  /\ deferred_std_qs = <<>>
  /\ standard = <<Plain(Q_2010_01, Plus4)>>
  /\ present_value = <<>>

\* C7: every Label carries the category and exogeneity of the first Entry with a
\* category among the standard entries followed by the retroactive entries.
C7_PrimaryClassification ==
  pc = "done"
    => LET es   == standard \o retroactive
           hits == {k \in 1..Len(es) : es[k].category # None}
       IN  hits # {}
             => \A k \in 1..Len(all_labels) :
                  /\ all_labels[k].category = es[Min(hits)].category
                  /\ all_labels[k].exogeneity = es[Min(hits)].exogeneity

\* C8: in every state of parse_header, each Entry has category and exogeneity both
\* present or both absent.
C8_CategoryWithExogeneity ==
  \A k \in 1..Len(AllEntries) :
    /\ (AllEntries[k].category = None) <=> (AllEntries[k].exogeneity = None)
    /\ AllEntries[k].category # None
         => (AllEntries[k].category \in Categories /\ AllEntries[k].exogeneity \in Exogeneities)

\* an Entry created with its category, and one created without and classified by a
\* later category-only line
C8_Witness ==
  /\ header_line = L_Cat
  /\ Len(standard) = 2
  /\ standard[1].category = <<"L","o","n","g","-","r","u","n">>
  /\ standard[1].exogeneity = <<"E","x","o","g","e","n","o","u","s">>
  /\ standard[2].category = <<"C","o","u","n","t","e","r","c","y","c","l","i","c","a","l">>
  /\ standard[2].exogeneity = <<"E","n","d","o","g","e","n","o","u","s">>

\* the list grew by an Entry whose amount has the sign of glyph g, and kept the
\* amounts it had
SignOfGlyph(lst1, lst2, g) ==
  /\ \A k \in 1..Len(lst1) : lst2[k].amount = lst1[k].amount
  /\ Len(lst2) > Len(lst1)
       => /\ Len(lst2) = Len(lst1) + 1
          /\ g \in {<<"-">>, <<EnDash>>, <<EmDash>>, <<MinusSign>>}
               => lst2[Len(lst2)].amount.neg
          /\ g = <<"+">> => ~lst2[Len(lst2)].amount.neg
          /\ g \in {<<"+">>, <<"-">>, <<EnDash>>, <<EmDash>>, <<MinusSign>>}

\* C9: the amount of every Entry has the sign of the leading glyph of the amount token
\* it was parsed from: negative for the hyphen, en dash, em dash and minus sign,
\* positive for +; the sign of a float is its sign bit, and no later step changes
\* an amount.
C9_AmountSign ==
  [][LET g == IF n' = n + 1 THEN Token(header_line').g1 ELSE <<>>
     IN  /\ Len(standard') >= Len(standard)
         /\ Len(retroactive') >= Len(retroactive)
         /\ Len(present_value') >= Len(present_value)
         /\ SignOfGlyph(standard, standard', g)
         /\ SignOfGlyph(retroactive, retroactive', g)
         /\ SignOfGlyph(present_value, present_value', g)]_vars

\* Entries parsed from a minus sign, an em dash and an en dash, all negative
C9_Witness ==
  /\ header_line = L_EnAC
  /\ Len(standard) = 3
  /\ standard[1].amount = [neg |-> TRUE, milli |-> 2000]
  /\ standard[2].amount = [neg |-> TRUE, milli |-> 500]
  /\ standard[3].amount = [neg |-> TRUE, milli |-> 1000500]

\* a line that is only a number of the page range 17..95
PageOnly(line) == RE_PAGE_NUM(strip(line)) /\ int(strip(line)) \in 17..95

\* raw_lines with every such line made blank
PagesBlanked(lines) ==
  [k \in 1..Len(lines) |-> IF PageOnly(lines[k]) THEN <<>> ELSE lines[k]]

\* C10: a raw body line that is only a number in 17..95 is never an element of
\* header_lines and contributes nothing to the narrative, wherever it stands: the
\* narrative is the one of the body with these lines made blank.
C10_PageNumberDropped ==
  /\ \A k \in 1..Len(header) : ~PageOnly(header[k])
  /\ pc = "done" => narrative = extract_narrative(PagesBlanked(raw_lines), narr_start)

\* a body with " 42 " in the header area and "95" in the narrative
C10_Witness ==
  /\ pc = "done"
  /\ raw_lines = <<R_Amount, R_Page42, R_Text, R_Page95>>
  /\ header = <<R_Amount>>
  /\ narr_start = 2
  /\ narrative = <<"T","h","e"," ","a","c","t"," ","w","a","s"," ","s","i","g","n","e","d",".">>

\* C11: no Label extract_labels has emitted has a motivation shorter than 15
\* characters.
C11_MotivationLength ==
  \A k \in 1..Len(labels_out) : Len(labels_out[k].motivation) >= 15

\* extract_labels returned one Label for a narrative that also holds the quote
\* " fourteen chars ", 16 characters between the marks and 14 after strip()
C11_Witness ==
  /\ pc = "done"
  /\ Contains(narrative, N_Padded)
  /\ Len(labels_out) = 1
  /\ labels_out[1].motivation # strip(SubSeq(N_Padded, 2, Len(N_Padded) - 1))

\* "the Secretary"
TheSecretary ==
  <<"t","h","e"," ","S","e","c","r","e","t","a","r","y">>

\* C12: a kept quote of 20 characters whose preceding text holds "01/02/2003" in its
\* last 150 characters and "the Secretary stated" in its last 200 gets the Label
\* date "01/02/2003" and the source "the Secretary", nothing else in it.
C12_ScenarioC ==
  [][\A m \in {NextQuote} :
       (/\ Len(labels_out') = Len(labels_out) + 1
        /\ Len(strip(m.g1)) = 20
        /\ Contains(LastChars(Preceding(narrative, m.start), 150), N_Date)
        /\ Contains(LastChars(Preceding(narrative, m.start), 200), N_Secretary))
         => /\ labels_out'[Len(labels_out')].date = N_Date
            /\ labels_out'[Len(labels_out')].source = TheSecretary]_vars

GrownAtEnd(lst1, lst2) ==
  /\ Len(lst2) \in {Len(lst1), Len(lst1) + 1}
  /\ \A k \in 1..Len(lst1) : /\ lst2[k].quarter = lst1[k].quarter
                             /\ lst2[k].amount = lst1[k].amount

\* C14: every step of parse_header leaves each of the three lists as it was or with
\* one Entry appended at its end: no Entry is removed or moved, so each list is in
\* the order of the lines that produced its entries, the deferred ones included.
C14_DocumentOrder ==
  [][/\ GrownAtEnd(standard, standard')
     /\ GrownAtEnd(retroactive, retroactive')
     /\ GrownAtEnd(present_value, present_value')]_vars

\* two standard entries made through the deferred queue after "Present Value:",
\* in the order of their amount lines
C14_Witness ==
  /\ section = "pv"
  /\ deferred_std_qs = <<>>
  /\ Len(standard) = 2
  /\ standard[1].quarter = Q_2009_01
  /\ standard[2].quarter = Q_2010_01
  /\ header_line = L_Plus4

\* YYYY-MM-DD: four digits, two digits and two digits
IsoDate(d) ==
  /\ Len(d) = 10
  /\ \A k \in {1, 2, 3, 4, 6, 7, 9, 10} : d[k] \in Digit
  /\ d[5] = "-"
  /\ d[8] = "-"

\* C15: date_signed is a string YYYY-MM-DD or is equal to signed_raw (line 131, the
\* signing value stripped), and it is equal to signed_raw whenever the signing value
\* holds no M/D/Y pattern.
C15_IsoOrSignedRaw ==
  pc = "done"
    => /\ IsoDate(date_signed) \/ date_signed = strip(raw)
       /\ ~RE_MDY(raw).ok => date_signed = strip(raw)

\* the line at the 0-based index m is not blank; it holds a number of one to three
\* digits and nothing else
NonBlank(lines, m) == strip(lines[m + 1]) # <<>>

PageLine(lines, m) == RE_PAGE_NUM(strip(lines[m + 1]))

\* the line at index j is where the upward walk of the spec from the signing line
\* at index si lands: not blank, no page number, with nothing but blank lines and
\* at most one page-number line between it and the signing line
NameLine(lines, si, j) ==
  /\ NonBlank(lines, j)
  /\ ~PageLine(lines, j)
  /\ LET between == {m \in (j + 1)..(si - 1) : NonBlank(lines, m)}
     IN  Cardinality(between) <= 1 /\ \A m \in between : PageLine(lines, m)

\* C16: the act_name of every act is the content of the line strictly above its
\* signing line where the upward walk lands, wherever the signing line is.
C16_ActName ==
  \A k \in 1..Len(acts) :
     \E j \in 0..(signed_indices[k] - 1) :
        /\ NameLine(doc, signed_indices[k], j)
        /\ acts[k].act_name = strip(doc[j + 1])

\* the lines of a document strictly after index a and strictly before index b
Between(lines, a, b) == SubSeq(lines, a + 2, b)

\* the index the upward skip from the signing line of a later act ends at: the
\* nearest line above that is not blank, or the nearest such line above that one
\* when it is a page-number line
SkipUp(lines, si) ==
  LET k1 == Max({m \in 0..(si - 1) : NonBlank(lines, m)})
  IN  IF PageLine(lines, k1) THEN Max({m \in 0..(k1 - 1) : NonBlank(lines, m)}) ELSE k1

\* the index of the first line after index a that IsEnd holds for, the number of
\* lines when there is none
FirstAfter(lines, a, IsEnd(_)) ==
  LET hits == {m \in (a + 1)..(Len(lines) - 1) : IsEnd(lines[m + 1])}
  IN  IF hits = {} THEN Len(lines) ELSE Min(hits)

\* the raw_lines of the acts built so far, with IsEnd telling the line that ends the
\* last act
RawLinesAre(IsEnd(_)) ==
  \A k \in 1..Len(acts) :
     acts[k].raw_lines =
       IF k < Len(signed_indices)
         THEN Between(doc, signed_indices[k], SkipUp(doc, signed_indices[k + 1]))
         ELSE Between(doc, signed_indices[k], FirstAfter(doc, signed_indices[k], IsEnd))

\* C17, as the spec states it: the raw_lines of an act that is not the last are the
\* lines after its signing line and before the act-name line of the next act; those
\* of the last act end before the first later line equal to "REFERENCES", or at the
\* end of the document.
C17_ExactReferences ==
  LET IsEnd(l) == l = References
  IN  RawLinesAre(IsEnd)

\* C17, amended: the same, the last act ending before the first later line whose
\* content without the whitespace at its ends is "REFERENCES".
C17_RawLines ==
  LET IsEnd(l) == strip(l) = References
  IN  RawLinesAre(IsEnd)

\* two acts, the first with the one line between its signing line and the name of
\* the second as raw_lines
C17_Witness ==
  /\ pc = "done"
  /\ doc = <<D_Signed, D_Name, D_Name, D_Effective>>
  /\ Len(acts) = 2
  /\ acts[1].raw_lines = <<D_Name>>
  /\ acts[2].raw_lines = <<>>

\* a line that matches a signing marker: "Signed:", "Date:" or "Effective:", then
\* whitespace, then a value
IsSigning(l) ==
  \E w \in SigningWords :
     /\ StartsWith(strip(l), w \o <<":">>)
     /\ Len(strip(l)) >= Len(w) + 3
     /\ strip(l)[Len(w) + 2] \in Space

\* the value of a signing line
SigningValue(l) ==
  LET w == CHOOSE w \in SigningWords : StartsWith(strip(l), w \o <<":">>)
  IN  strip(From(strip(l), Len(w) + 2))

\* find_act_blocks returned one act for each signing line at or after the first
\* line that holds marker (the first line of the document when none does), in the
\* order of the lines
OneActPerSigningLine(marker) ==
  LET holds == {m \in 0..(Len(doc) - 1) : Contains(doc[m + 1], marker)}
      first == IF holds = {} THEN 0 ELSE Min(holds)
      lines == Ascending({m \in first..(Len(doc) - 1) : IsSigning(doc[m + 1])})
  IN  /\ Len(acts) = Len(lines)
      /\ \A k \in 1..Len(acts) : acts[k].signed_raw = SigningValue(doc[lines[k] + 1])

\* "ACT-BY-ACT SUMMARY"
SummaryMarker ==
  <<"A","C","T","-","B","Y","-","A","C","T"," ","S","U","M","M","A","R","Y">>

\* C18, as the spec states it: one act per signing line at or after the first line
\* that holds "ACT-BY-ACT SUMMARY", in document order; from the first line of the
\* document when no line holds it.
C18_SummaryMarker == pc = "done" => OneActPerSigningLine(SummaryMarker)

\* C18, amended: the same with the marker "II. ACT-BY-ACT SUMMARY".
C18_OneActPerSigningLine == pc = "done" => OneActPerSigningLine(PartTwoMarker)

\* a signing line before the marker line gave no act, the one after it did, and
\* "Date:" without a value gave none
C18_Witness ==
  /\ pc = "done"
  /\ doc = <<D_Signed, D_Marker, D_Effective, D_NoValue>>
  /\ Len(acts) = 1
  /\ acts[1].signed_raw = SigningValue(D_Effective)

\* the words of a string: its maximal runs of characters that are not whitespace
RECURSIVE Words(_)
Words(s) ==
  IF s = <<>> THEN <<>>
  ELSE IF s[1] \in Space THEN Words(Tail(s))
  ELSE LET k == Min({q \in 2..(Len(s) + 1) : q = Len(s) + 1 \/ s[q] \in Space}) - 1
       IN  <<SubSeq(s, 1, k)>> \o Words(SubSeq(s, k + 1, Len(s)))

\* the words of the lines of a raw body from the 0-based index k on, page-number
\* lines left out
RECURSIVE WordsFrom(_, _)
WordsFrom(lines, k) ==
  IF k >= Len(lines) THEN <<>>
  ELSE (IF PageOnly(lines[k + 1]) THEN <<>> ELSE Words(lines[k + 1]))
         \o WordsFrom(lines, k + 1)

\* words with one space between two of them
RECURSIVE SingleSpaced(_)
SingleSpaced(ws) ==
  IF ws = <<>> THEN <<>>
  ELSE IF Len(ws) = 1 THEN ws[1]
  ELSE ws[1] \o <<" ">> \o SingleSpaced(Tail(ws))

\* C19: the narrative of an act is made of the raw body lines at index >=
\* narrative_start_index only: their words in order, blank lines and page-number
\* lines of 17..95 dropped, one space between two words, no whitespace at the ends;
\* no line before narrative_start_index contributes.
C19_NarrativeFromStart ==
  pc = "done"
    => /\ narrative = SingleSpaced(WordsFrom(raw_lines, narr_start))
       /\ narrative # <<>> => narrative[1] \notin Space /\ narrative[Len(narrative)] \notin Space
       /\ \A q \in 1..(Len(narrative) - 1) :
             narrative[q] \in Space => narrative[q] = " " /\ narrative[q + 1] \notin Space

\* a header line was kept before the narrative start, and a page number and a
\* line with a doubled space and a tab follow it
C19_Witness ==
  /\ pc = "done"
  /\ header # <<>>
  /\ narr_start \in 1..(Len(raw_lines) - 1)
  /\ \E k \in (narr_start + 1)..Len(raw_lines) : raw_lines[k] = R_Page42
  /\ \E k \in (narr_start + 1)..Len(raw_lines) : raw_lines[k] = R_Text
  /\ narrative # <<>>

\* parse_header on the header lines hl alone, from the line at position k on
RECURSIVE Alone(_, _, _)
Alone(st, hl, k) ==
  IF k > Len(hl) \/ st.raised THEN st ELSE Alone(LoopBody(st, hl[k]), hl, k + 1)

Count(sq, e) == Cardinality({k \in 1..Len(sq) : sq[k] = e})

\* what the spec lets the caller see after k failed attempts: each a request and a
\* failure, a wait of 2 seconds after the first, of 4 after the second, none after
\* the third
RECURSIVE FailedAttempts(_)
FailedAttempts(k) ==
  IF k = 0 THEN <<>>
  ELSE FailedAttempts(k - 1) \o <<Requested, Failed>>
         \o (IF k = 1 THEN <<Slept(2)>> ELSE IF k = 2 THEN <<Slept(4)>> ELSE <<>>)

\* C21: download_pdf ends after at most 3 requests; it returns True at the first
\* attempt that succeeds, False only after 3 failed attempts, waits 2 and then 4
\* seconds between attempts and does not wait after the last one.
C21_DownloadTerminates ==
  /\ [](/\ attempt = Count(log, Requested)
        /\ attempt <= 3
        /\ \A failures \in {Count(log, Failed)} :
              /\ log \in {FailedAttempts(failures),
                          FailedAttempts(failures) \o <<Requested>>}
              /\ dl_result = "True"
                   => pc = "done" /\ log = FailedAttempts(failures) \o <<Requested>>
              /\ dl_result = "False" => pc = "done" /\ log = FailedAttempts(3)
        /\ pc = "done" => dl_result \in {"True", "False"})
  /\ <>(pc \in {"done", "raised"})

\* two attempts failed, the second while the body was read, and the third succeeded
C21_Witness ==
  /\ pc = "done"
  /\ dl_result = "True"
  /\ log = <<Requested, Failed, Slept(2), Requested, Failed, Slept(4), Requested>>
  /\ dest_file = <<"c1", "c2">>

\* the calls the handler made
Called(call) == \E k \in 1..Len(effects) : effects[k] = call

\* C22: the handler returns 400 without a download or an upload when pdf_url or
\* output_key is missing; otherwise 200 exactly when the payload's error is null
\* after extraction and upload, and 500 otherwise; with boto3 at hand the upload
\* is attempted also after a failed extraction, and the message of a failed
\* upload is appended to the error of the extraction.
C22_HandlerStatus ==
  pc = "done"
    => IF event.pdf_url \in {None, <<>>} \/ event.output_key \in {None, <<>>}
       THEN response.statusCode = 400 /\ effects = <<>>
       ELSE /\ response.statusCode = IF response.body.error = None THEN 200 ELSE 500
            /\ boto3 = "module" => Called("put_object")

\* the lines after the 0-based index k that are neither blank nor only a number of
\* one to three digits, and the first 30 of them
LinesAhead(lines, k) ==
  {j \in (k + 1)..(Len(lines) - 1) :
     strip(lines[j + 1]) # <<>> /\ ~RE_PAGE_NUM(strip(lines[j + 1]))}

Next30(lines, k) ==
  {j \in LinesAhead(lines, k) :
     Cardinality({m \in LinesAhead(lines, k) : m < j}) < 30}

\* C23: a line that is not blank, no page number and not structural is skipped as
\* a footnote exactly when one of the next 30 non-blank, non-page-number lines is
\* structural by the rules of the classifier; otherwise its index is returned as
\* the narrative start.
C23_FootnoteIffStructuralAhead ==
  [][(/\ pc = "clean_header_area"
      /\ i < Len(raw_lines)
      /\ strip(raw_lines[i + 1]) # <<>>
      /\ ~RE_PAGE_NUM(strip(raw_lines[i + 1]))
      /\ ~is_structural(raw_lines[i + 1]))
     => IF \E j \in Next30(raw_lines, i) : is_structural(raw_lines[j + 1])
        THEN pc' = "clean_header_area" /\ i' = i + 1 /\ header' = header
        ELSE pc' = "extract_narrative" /\ narr_start' = i]_vars

\* "2011-03" and "2009-07"
Q_2011_03 ==
  <<"2","0","1","1","-","0","3">>

Q_2009_07 ==
  <<"2","0","0","9","-","0","7">>

\* the amounts -2 and -0.5
Minus2 == [neg |-> TRUE, milli |-> 2000]

MinusHalf == [neg |-> TRUE, milli |-> 500]

\* lst2 is lst1 with one Entry of quarter qs and amount val appended
OneMore(lst1, lst2, qs, val) ==
  /\ Len(lst2) = Len(lst1) + 1
  /\ SubSeq(lst2, 1, Len(lst1)) = lst1
  /\ lst2[Len(lst2)].quarter = qs
  /\ lst2[Len(lst2)].amount = val

\* C24: a content line with a quarter token and an amount token, processed while a
\* section is set, appends one Entry with the line's quarter and amount to the list
\* of the section, sets last_q to the quarter, empties pending_qs and leaves
\* _deferred_std_qs and the two other lists as they are, _deferred_std_qs empty or
\* not.
C24_QuarterAndAmount ==
  [][(n' = n + 1 /\ header_line' \in {L_QAC, L_EmQA} /\ section # "None")
       => \A qs \in {IF header_line' = L_QAC THEN Q_2011_03 ELSE Q_2009_07} :
          \A val \in {IF header_line' = L_QAC THEN Minus2 ELSE MinusHalf} :
             /\ section' = section
             /\ IF section = "std" THEN OneMore(standard, standard', qs, val)
                                   ELSE standard' = standard
             /\ IF section = "retro" THEN OneMore(retroactive, retroactive', qs, val)
                                     ELSE retroactive' = retroactive
             /\ IF section = "pv" THEN OneMore(present_value, present_value', qs, val)
                                  ELSE present_value' = present_value
             /\ last_q' = qs
             /\ pending_qs' = <<>>
             /\ deferred_std_qs' = deferred_std_qs]_vars

\* with "2009-01" deferred, the line "2011Q3 -$2 billion ..." made a present_value
\* Entry and left the deferred quarter waiting
C24_Witness ==
  /\ n = 4
  /\ header_line = L_QAC
  /\ section = "pv"
  /\ deferred_std_qs = <<Q_2009_01>>
  /\ standard = <<>>
  /\ Len(present_value) = 1
  /\ present_value[1].quarter = Q_2011_03
  /\ last_q = Q_2011_03

\* "Countercyclical" and "Endogenous", the tokens of the line L_Cat
Countercyclical ==
  <<"C","o","u","n","t","e","r","c","y","c","l","i","c","a","l">>

Endogenous ==
  <<"E","n","d","o","g","e","n","o","u","s">>

\* C25: a category-only content line gives category and exogeneity to one Entry,
\* the first without a category in the order standard, retroactive, present_value;
\* it changes no other Entry, adds and removes none, changes neither queue nor
\* last_q, and changes nothing when every Entry has a category.
C25_CategoryOnly ==
  [][(n' = n + 1 /\ header_line' = L_Cat)
       => \A before \in {standard \o retroactive \o present_value} :
          \A after \in {standard' \o retroactive' \o present_value'} :
          \A open \in {{k \in 1..Len(before) : before[k].category = None}} :
             /\ Len(standard') = Len(standard)
             /\ Len(retroactive') = Len(retroactive)
             /\ Len(present_value') = Len(present_value)
             /\ \A k \in 1..Len(before) :
                   after[k] = IF open # {} /\ k = Min(open)
                                THEN [before[k] EXCEPT !.category = Countercyclical,
                                                       !.exogeneity = Endogenous]
                                ELSE before[k]
             /\ pending_qs' = pending_qs
             /\ deferred_std_qs' = deferred_std_qs
             /\ last_q' = last_q
             /\ section' = section]_vars

\* the retroactive and the present_value list hold an Entry without category each;
\* the category line gave its tokens to the retroactive one
C25_Witness ==
  /\ n = 4
  /\ header_line = L_Cat
  /\ standard = <<>>
  /\ Len(retroactive) = 1
  /\ retroactive[1].category = Countercyclical
  /\ retroactive[1].exogeneity = Endogenous
  /\ Len(present_value) = 1
  /\ present_value[1].category = None

\* the "Present Value:" header lines of SpecQueues, without and with trailing text
PresentValueHeaders == {L_PV, L_PVAmount}

\* C26: a "Present Value:" header line moves pending_qs, in order, into
\* _deferred_std_qs when the section is standard, and sets the section to
\* present_value with pending_qs empty; no header line discards a quarter waiting in
\* _deferred_std_qs: a deferred quarter leaves the queue only as the quarter of a new
\* standard Entry.
C26_DeferredKept ==
  [][n' = n + 1
       => \A queue \in {deferred_std_qs
                          \o (IF header_line' \in PresentValueHeaders /\ section = "std"
                                THEN pending_qs ELSE <<>>)} :
             /\ header_line' \in PresentValueHeaders
                  => section' = "pv" /\ pending_qs' = <<>>
             /\ \/ deferred_std_qs' = queue
                \/ /\ queue # <<>>
                   /\ deferred_std_qs' = Tail(queue)
                   /\ Len(standard') = Len(standard) + 1
                   /\ standard'[Len(standard')].quarter = Head(queue)]_vars

\* the section-header lines without trailing text
SectionHeaders == {L_Excl, L_Incl, L_Bare, L_PV}

\* the section a header line sets
SectionOf(l) ==
  IF l = L_Incl THEN "retro" ELSE IF l = L_PV THEN "pv" ELSE "std"

\* C27: a section-header line sets the section, empties pending_qs, emits no Entry
\* and leaves the three lists and last_q as they are; so an amount-only line right
\* after it, with _deferred_std_qs empty, gets the last quarter seen before the
\* header.
C27_HeaderKeepsLastQuarter ==
  [][/\ (n' = n + 1 /\ header_line' \in SectionHeaders)
          => /\ section' = SectionOf(header_line')
             /\ pending_qs' = <<>>
             /\ standard' = standard
             /\ retroactive' = retroactive
             /\ present_value' = present_value
             /\ last_q' = last_q
     /\ (/\ n' = n + 1
         /\ n >= 1
         /\ header_line \in SectionHeaders
         /\ header_line' = L_Minus12_3
         /\ deferred_std_qs = <<>>)
          => /\ section = "std" => OneMore(standard, standard', last_q, Minus12_3)
             /\ section = "retro" => OneMore(retroactive, retroactive', last_q, Minus12_3)
             /\ section = "pv" => OneMore(present_value, present_value', last_q, Minus12_3)
             /\ last_q' = last_q]_vars

\* the quarter of the standard section went to the amount of the retroactive one
C27_Witness ==
  /\ n = 4
  /\ header_line = L_Minus12_3
  /\ section = "retro"
  /\ Len(standard) = 1
  /\ standard[1].quarter = Q_2011_03
  /\ retroactive = <<Plain(Q_2011_03, Minus12_3)>>

\* one iteration of parse_header with the deferred queue never filled: the token
\* branches see an empty _deferred_std_qs
WithoutDeferred(st, line) ==
  LET d  == SectionDetection(st, line)
      s0 == [d.st EXCEPT !.deferred_std_qs = <<>>]
  IN  IF d.cont THEN s0
      ELSE IF s0.section = "None" THEN s0
      ELSE ContentLine(s0, d.line)

\* nothing is pending from the standard section when line is a "Present Value:" header
NormalLayout(line) ==
  line \in PresentValueHeaders => pending_qs = <<>> \/ section # "std"

\* C28: while every "Present Value:" header is met with pending_qs empty or the
\* section not standard, _deferred_std_qs stays empty and each iteration leaves
\* the locals, the three lists among them, as the parser without the deferred
\* queue leaves them.
C28_NormalLayout ==
  [][(n' = n + 1 /\ deferred_std_qs = <<>> /\ NormalLayout(header_line'))
       => \A r \in {WithoutDeferred(Locals, header_line')} :
            /\ deferred_std_qs' = <<>>
            /\ standard' = r.standard
            /\ retroactive' = r.retroactive
            /\ present_value' = r.present_value
            /\ section' = r.section
            /\ last_q' = r.last_q
            /\ pending_qs' = r.pending_qs]_vars

\* a quarter pending in the retroactive section at "Present Value:" is not
\* deferred; the amount after the header is a present_value Entry
C28_Witness ==
  /\ n = 4
  /\ header_line = L_Minus12_3
  /\ section = "pv"
  /\ deferred_std_qs = <<>>
  /\ standard = <<>>
  /\ retroactive = <<>>
  /\ present_value = <<Plain(Q_2009_01, Minus12_3)>>

\* the number of Entries in the three lists
TotalEntries == Len(standard) + Len(retroactive) + Len(present_value)

\* a content line with an amount token; the text after "Present Value:" is content
AmountBearing(line) == line \notin SectionHeaders /\ RE_AMOUNT(line).ok

\* C29: each line adds exactly one Entry to the three lists when it is a content
\* line with an amount token processed with a section set, and none otherwise: a
\* quarter-only line, a category-only line and a section header add nothing, so a
\* queued quarter no later amount consumes leaves no Entry.
C29_OneEntryPerAmount ==
  [][n' = n + 1
       => /\ TotalEntries' = TotalEntries
                               + (IF AmountBearing(header_line') /\ section' # "None"
                                    THEN 1 ELSE 0)
          /\ Len(standard') >= Len(standard)
          /\ Len(retroactive') >= Len(retroactive)
          /\ Len(present_value') >= Len(present_value)]_vars

\* parse_header returned with a quarter still queued and the one Entry of the
\* amount line before it
C29_Witness ==
  /\ pc = "returned"
  /\ n = 3
  /\ header_line = L_2009Q1
  /\ pending_qs = <<Q_2009_01>>
  /\ standard = <<Plain(None, Minus12_3)>>
  /\ TotalEntries = 1

\* a line that is only a number
NumberOnly(s) == s # <<>> /\ \A k \in 1..Len(s) : s[k] \in Digit

\* structural by a section marker, a quarter token, an amount token, a leading
\* category token or a leading sign glyph
ByRules(s) == s # <<>> /\ ~NumberOnly(s) /\ is_structural(s)

\* the trimmed lines below index k, in order
TrimmedBelow(lines, k) == [m \in 1..k |-> strip(lines[m])]

\* C30: clean_header_area returns narrative_start_index in 0..len(raw_lines) and
\* as header_lines the trimmed lines below that index that are structural by the
\* classifier rules, in order; header_lines holds no blank line and no line that
\* is only a number, and the line at narrative_start_index, when there is one, is
\* non-blank and not structural.
C30_HeaderLines ==
  pc \in {"extract_narrative", "done"}
    => /\ narr_start \in 0..Len(raw_lines)
       /\ header = SelectSeq(TrimmedBelow(raw_lines, narr_start), ByRules)
       /\ \A k \in 1..Len(header) : header[k] # <<>> /\ ~NumberOnly(header[k])
       /\ narr_start < Len(raw_lines)
            => /\ strip(raw_lines[narr_start + 1]) # <<>>
               /\ ~is_structural(strip(raw_lines[narr_start + 1]))

\* the raw_lines of act k are the lines of the document from the one after its
\* signing line up to the 0-based index e, not included
BodyIs(k, e) == acts[k].raw_lines = SubSeq(doc, signed_indices[k] + 2, e)

\* C31: the raw_lines of the acts are ranges of lines of the document, each
\* starting after the signing line of its act and ending at or before the signing
\* line of the next act, so that the ranges are disjoint and in document order;
\* no line of a range matches a signing marker.
C31_DisjointBodies ==
  pc \in {"find_acts", "done"}
    => \A k \in 1..Len(acts) :
          \E e \in (signed_indices[k] + 1)..Len(doc) :
             /\ BodyIs(k, e)
             /\ k < Len(signed_indices) => e <= signed_indices[k + 1]
             /\ \A m \in (signed_indices[k] + 1)..(e - 1) : ~IsSigning(doc[m + 1])

\* two acts; "Date:" without a value is in the body of the first, the name line of
\* the second is not
C31_Witness ==
  /\ pc = "done"
  /\ doc = <<D_Signed, D_NoValue, D_Name, D_Effective>>
  /\ signed_indices = <<0, 3>>
  /\ acts[1].raw_lines = <<D_NoValue>>
  /\ acts[2].raw_lines = <<>>

\* what pages[i] is to hold for the page at index page_num: its text, or the OCR
\* error text when its OCR raises
PageResult(page_num) ==
  IF pdf[page_num + 1] = "garbled" THEN OcrErrorText(page_num) ELSE OcrText(page_num)

\* OCR is the only thing that fails in the document
OnlyOcrFails == \A k \in 1..Len(pdf) : pdf[k] # "damaged"

\* C32: in the OCR path, whatever the order the page workers complete in, no page
\* index is written twice; when extract_pdf returns each index was written once
\* and pages has n_pages elements, pages[i] being the text or the OCR error text
\* of page i; and when OCR failures are the only failures extract_pdf does not
\* raise and returns.
C32_OcrPages ==
  /\ [](\A p \in 0..(Len(pdf) - 1) : Count(written, p) <= 1)
  /\ [](pc = "done"
          => /\ Len(pages_text) = Len(pdf)
             /\ \A p \in 0..(Len(pdf) - 1) :
                   Count(written, p) = 1 /\ pages_text[p + 1] = PageResult(p))
  /\ [](pc = "raised" => ~OnlyOcrFails)
  /\ (OnlyOcrFails => <>(pc = "done"))

\* the last page was collected first and the OCR of the second page failed
C32_Witness ==
  /\ pc = "done"
  /\ pdf = <<"scan", "garbled", "scan">>
  /\ written = <<2, 0, 1>>
  /\ pages_text = <<OcrText(0), OcrErrorText(1), OcrText(2)>>

\* the elements of a sequence
Elements(sq) == {sq[k] : k \in 1..Len(sq)}

\* C33: a row whose cache file exists when the rows are filtered is never handed
\* to download_pdf or extract_pdf; when the "Results:" line is printed success
\* plus failed is the number of rows processed, and the number printed as
\* "skipped (cached)" is the number of rows skipped for their cache file, never
\* negative.
C33_Summary ==
  /\ pc = "filter" => \A k \in 1..Len(to_process) : to_process[k].cache_file \notin cache
  /\ \A k \in 1..Len(fetched) : fetched[k].row \in Elements(to_process)
  /\ Len(summary) = 3
       => /\ success + failed = Len(rows)
          /\ summary[3] = skipped
          /\ summary[3] >= 0
====
